---- MODULE Spec2Model ----
(***************************************************************************)
(* Connection pool (lib/pool.js) and RPC-context lifecycle of the client   *)
(* (lib/client.js) of node-buckets-mdapi / node-boray.                     *)
(*                                                                         *)
(* The heap of BorayConnection objects is the sequence "mconns", the heap  *)
(* of BorayConnectionAllocation objects is the sequence "allocs"; object   *)
(* references are indexes into these sequences.  A failed assert.* call    *)
(* throws: the operation stops where it is, the mutations made before the  *)
(* throw stay, and "fault" records the assertion.  An uncaught exception   *)
(* ends the Node process, so no operation runs once fault is set.          *)
(*                                                                         *)
(* lib/client.js holds the client under its earlier name, BorayClient, and *)
(* lib/objects.js holds it under its present name, BucketsMdapiClient; the *)
(* two differ in names only.  One of these names is the internal event     *)
(* releaseWhenDone listens for, which the model takes from the present     *)
(* client together with the streaming functions that client calls.         *)
(***************************************************************************)
EXTENDS Integers, Sequences, FiniteSets, TLC

\* ------------------------------------------------------------------ bounds
NumKeys == 2
MaxConns == 2
MaxClientConns == 1
MaxAllocs == 1
MaxContexts == 2
TicksPerMs == 2
MaxImmediates == 1
MaxData == 2
MaxMsgs == 3

\* --------------------------------------------------------------- constants
BorayFallbackMaxTime == 15 * 1000

MC_S_AVAIL == "_boray_conn_state_avail"
MC_S_DRAIN == "_boray_conn_state_drain"
MC_S_FALLBACK == "_boray_conn_state_fallback"
MC_S_DELETED == "_boray_conn_state_deleted"

BORAY_CS_OPEN == "open"
BORAY_CS_CLOSING == "closing"

\* the internal event releaseWhenDone of BucketsMdapiClient listens for
RPC_DONE_EVENT == "_buckets_mdapi_internal_rpc_done"

\* The streaming functions BucketsMdapiClient calls and the internal event each
\* emits after 'end' or 'error': buckets.listBuckets(rpcctx, owner, prefix,
\* limit, marker, vnode, req_id) and objects.listObjects(rpcctx, owner,
\* bucket_id, prefix, limit, marker, vnode, req_id).
StreamMethods == {"listBuckets", "listObjects"}
DoneEventOf(method) ==
    IF method = "listBuckets"
    THEN "_boray_internal_rpc_done"
    ELSE "_buckets_mdapi_internal_rpc_done"

null == -1

NoFault == "none"

Keys == 1..NumKeys

\* The clock (process.hrtime) counts ticks of 1/TicksPerMs millisecond from an
\* arbitrary origin; the pool uses it only through process.hrtime(since), the
\* time elapsed since a stamp it took.  The model puts the origin at the
\* instant the stamp in use was taken and visits the instants around the
\* fallback bound; every later instant is like the last one to the pool,
\* which only tests whether the age exceeds the bound.
TimePoints ==
    {0} \cup { BorayFallbackMaxTime * TicksPerMs + o : o \in {0, 1, TicksPerMs} }

\* jsprim.hrtimeMillisec(process.hrtime(since)): whole milliseconds, truncated
hrtimeMillisec(d) == d \div TicksPerMs

VARIABLES
    now,                    \* process.hrtime(), in ticks
    mconns,                 \* heap: BorayConnection objects
    allocs,                 \* heap: BorayConnectionAllocation objects
    mcp_conns,              \* key -> BorayConnection (null: no such property)
    mcp_avail,              \* set of keys
    mcp_fallback_enable,
    mcp_conn_fallback,
    mcp_conn_fallback_time,
    ctxs,                   \* heap: BorayRpcContext objects
    nactive,                \* count of outstanding RPCs
    ncontexts,              \* counter of contexts ever created
    activeContexts,         \* context id -> BorayRpcContext (null: absent)
    closeState,
    nactiveAtClose,
    immediates,             \* callbacks queued by setImmediate, in order
    detached,               \* connections whose Fast client was detached
    ncloseCalls,            \* close() calls made so far: 0, 1, or 2 for more
    ncloseFini,             \* number of closeFini() invocations so far
    cueballState,           \* state of the cueball ConnectionSet
    resolverState,          \* state of the cueball resolver
    closeEmitted,           \* number of 'close' events the client has emitted
    failFast,               \* options.failFast
    timeConnected,          \* null, or the time the set was seen 'running'
    timeCueballInitFailed,  \* null, or the time the set was seen 'failed'
    stateChangedListener,   \* cueballOnStateChange is on 'stateChanged'
    sawRunning,             \* the set has announced 'running' at some point
    delivered,              \* what the last step delivered to the caller's
                            \* callbacks and listeners, in order
    ret,                    \* value the call made in the last step returned
    fault                   \* assertion that ended the process, or NoFault

poolVars == <<mconns, allocs, mcp_conns, mcp_avail, mcp_fallback_enable,
              mcp_conn_fallback, mcp_conn_fallback_time>>

clientVars == <<ctxs, nactive, ncontexts, activeContexts, closeState,
                nactiveAtClose, immediates, detached, ncloseFini,
                cueballState, resolverState, closeEmitted, failFast,
                timeConnected, timeCueballInitFailed, stateChangedListener,
                sawRunning>>

\* the ids of the contexts the bounds let a client create
CtxIds == 0..(MaxContexts - 1)

\* ------------------------------------------------------------ object types
\* new BorayConnection(key, conn, hdl, log).  "hdl_nrelease" counts the calls
\* of mc_hdl.release(); "mc_hist" lists the values assigned to mc_state, in
\* order, each with the value mc_nreqs had at that assignment.
BorayConnection(key) ==
    [ mc_key |-> key, mc_nreqs |-> 0, mc_state |-> MC_S_AVAIL,
      hdl_nrelease |-> 0,
      mc_hist |-> << [st |-> MC_S_AVAIL, nreqs |-> 0] >> ]

BorayConnectionAllocation(mconn) ==
    [ mca_mconn |-> mconn, mca_released |-> FALSE ]

\* new BorayRpcContext({ id, borayClient, connection }); "kind" tells which of
\* makeReleaseCb ("callback") and releaseWhenDone ("emitter") releases it,
\* "done" is the flag of releaseWhenDone's listener, "completed" tells that
\* the RPC made with the context has ended.  An emitter context is kept with
\* the emitter its method returns: "emits" is the internal event the method
\* emits on it, "listens" the event releaseWhenDone has put a listener on.
\* A callback context is kept with the request of its method: "method" is the
\* method, "data" the array rpcCommonBufferData fills with the data messages.
BorayRpcContext(id, conn, kind) ==
    [ mc_id |-> id, mc_conn |-> conn, kind |-> kind, done |-> FALSE,
      completed |-> FALSE, emits |-> "none", listens |-> "none",
      method |-> "none", data |-> << >>,
      msgs |-> << >>, nread |-> 0, embeddedError |-> "none" ]

Undefined == [ err |-> "none", val |-> null ]
RetValue(v) == [ err |-> "none", val |-> v ]
RetError(name) == [ err |-> name, val |-> null ]

\* The pool object together with the two heaps, as one value the operations
\* below transform.
Cur ==
    [ now |-> now, mconns |-> mconns, allocs |-> allocs,
      mcp_conns |-> mcp_conns, mcp_avail |-> mcp_avail,
      mcp_fallback_enable |-> mcp_fallback_enable,
      mcp_conn_fallback |-> mcp_conn_fallback,
      mcp_conn_fallback_time |-> mcp_conn_fallback_time,
      ctxs |-> ctxs, nactive |-> nactive, ncontexts |-> ncontexts,
      activeContexts |-> activeContexts, closeState |-> closeState,
      nactiveAtClose |-> nactiveAtClose, immediates |-> immediates,
      detached |-> detached, ncloseFini |-> ncloseFini,
      cueballState |-> cueballState, resolverState |-> resolverState,
      closeEmitted |-> closeEmitted, failFast |-> failFast,
      timeConnected |-> timeConnected,
      timeCueballInitFailed |-> timeCueballInitFailed,
      stateChangedListener |-> stateChangedListener,
      sawRunning |-> sawRunning, delivered |-> << >>,
      ret |-> Undefined, fault |-> NoFault ]

Throw(S, msg) == [S EXCEPT !.fault = msg]

SetState(S, m, st) ==
    [S EXCEPT !.mconns[m].mc_state = st,
              !.mconns[m].mc_hist =
                  Append(@, [st |-> st, nreqs |-> S.mconns[m].mc_nreqs])]

\* connDelete without the call of mc_hdl.release()
connDelete_NoHandleRelease(S, key) ==
    IF key \in S.mcp_avail
    THEN Throw(S, "connDelete: key in mcp_avail")
    ELSE IF S.mcp_conns[key] = null
    THEN Throw(S, "connDelete: key not in mcp_conns")
    ELSE LET mconn == S.mcp_conns[key] IN
         IF S.mconns[mconn].mc_state # MC_S_DRAIN
         THEN Throw(S, "connDelete: mc_state is not MC_S_DRAIN")
         ELSE IF S.mcp_conn_fallback = mconn
         THEN Throw(S, "attempted to delete fallback connection")
         ELSE IF S.mconns[mconn].mc_nreqs # 0
         THEN Throw(S, "connDelete: mc_nreqs is not 0")
         ELSE LET S1 == [S EXCEPT !.mcp_conns[key] = null]
                  S2 == SetState(S1, mconn, MC_S_DELETED)
              IN  S2

\* ------------------------------------------------------- pool operations
\* connDelete leaving the record in mcp_conns
connDelete_KeepKey(S, key) ==
    IF key \in S.mcp_avail
    THEN Throw(S, "connDelete: key in mcp_avail")
    ELSE IF S.mcp_conns[key] = null
    THEN Throw(S, "connDelete: key not in mcp_conns")
    ELSE LET mconn == S.mcp_conns[key] IN
         IF S.mconns[mconn].mc_state # MC_S_DRAIN
         THEN Throw(S, "connDelete: mc_state is not MC_S_DRAIN")
         ELSE IF S.mcp_conn_fallback = mconn
         THEN Throw(S, "attempted to delete fallback connection")
         ELSE IF S.mconns[mconn].mc_nreqs # 0
         THEN Throw(S, "connDelete: mc_nreqs is not 0")
         ELSE LET S1 == S
                  S2 == SetState(S1, mconn, MC_S_DELETED)
              IN  [S2 EXCEPT !.mconns[mconn].hdl_nrelease = @ + 1]

connDelete(S, key) ==
    IF key \in S.mcp_avail
    THEN Throw(S, "connDelete: key in mcp_avail")
    ELSE IF S.mcp_conns[key] = null
    THEN Throw(S, "connDelete: key not in mcp_conns")
    ELSE LET mconn == S.mcp_conns[key] IN
         IF S.mconns[mconn].mc_state # MC_S_DRAIN
         THEN Throw(S, "connDelete: mc_state is not MC_S_DRAIN")
         ELSE IF S.mcp_conn_fallback = mconn
         THEN Throw(S, "attempted to delete fallback connection")
         ELSE IF S.mconns[mconn].mc_nreqs # 0
         THEN Throw(S, "connDelete: mc_nreqs is not 0")
         ELSE LET S1 == [S EXCEPT !.mcp_conns[key] = null]
                  S2 == SetState(S1, mconn, MC_S_DELETED)
              IN  [S2 EXCEPT !.mconns[mconn].hdl_nrelease = @ + 1]

\* connDrain assigning MC_S_AVAIL instead of MC_S_DRAIN
connDrain_WrongState(S, key) ==
    IF key \in S.mcp_avail
    THEN Throw(S, "connDrain: key in mcp_avail")
    ELSE IF S.mcp_conns[key] = null
    THEN Throw(S, "connDrain: key not in mcp_conns")
    ELSE LET mconn == S.mcp_conns[key] IN
         IF S.mconns[mconn].mc_state \notin {MC_S_AVAIL, MC_S_FALLBACK}
         THEN Throw(S, "connDrain: mc_state is not AVAIL or FALLBACK")
         ELSE LET S1 == SetState(S, mconn, MC_S_AVAIL) IN
              IF S1.mconns[mconn].mc_nreqs = 0
              THEN connDelete(S1, key)
              ELSE S1

\* connDrain leaving an idle connection DRAINING
connDrain_KeepIdle(S, key) ==
    IF key \in S.mcp_avail
    THEN Throw(S, "connDrain: key in mcp_avail")
    ELSE IF S.mcp_conns[key] = null
    THEN Throw(S, "connDrain: key not in mcp_conns")
    ELSE LET mconn == S.mcp_conns[key] IN
         IF S.mconns[mconn].mc_state \notin {MC_S_AVAIL, MC_S_FALLBACK}
         THEN Throw(S, "connDrain: mc_state is not AVAIL or FALLBACK")
         ELSE SetState(S, mconn, MC_S_DRAIN)

connDrain(S, key) ==
    IF key \in S.mcp_avail
    THEN Throw(S, "connDrain: key in mcp_avail")
    ELSE IF S.mcp_conns[key] = null
    THEN Throw(S, "connDrain: key not in mcp_conns")
    ELSE LET mconn == S.mcp_conns[key] IN
         IF S.mconns[mconn].mc_state \notin {MC_S_AVAIL, MC_S_FALLBACK}
         THEN Throw(S, "connDrain: mc_state is not AVAIL or FALLBACK")
         ELSE LET S1 == SetState(S, mconn, MC_S_DRAIN) IN
              IF S1.mconns[mconn].mc_nreqs = 0
              THEN connDelete(S1, key)
              ELSE S1

\* connFallbackRemove clearing the slot without draining the connection
connFallbackRemove_KeepState(S) ==
    IF S.mcp_conn_fallback = null
    THEN IF S.mcp_conn_fallback_time # null
         THEN Throw(S, "connFallbackRemove: fallback time without fallback")
         ELSE S
    ELSE IF S.mcp_conn_fallback_time = null
    THEN Throw(S, "connFallbackRemove: fallback without fallback time")
    ELSE LET mconn == S.mcp_conn_fallback
             S1 == [S EXCEPT !.mcp_conn_fallback = null,
                             !.mcp_conn_fallback_time = null]
         IN  IF S1.mconns[mconn].mc_state # MC_S_FALLBACK
             THEN Throw(S1, "connFallbackRemove: mc_state is not FALLBACK")
             ELSE S1

connFallbackRemove(S) ==
    IF S.mcp_conn_fallback = null
    THEN IF S.mcp_conn_fallback_time # null
         THEN Throw(S, "connFallbackRemove: fallback time without fallback")
         ELSE S
    ELSE IF S.mcp_conn_fallback_time = null
    THEN Throw(S, "connFallbackRemove: fallback without fallback time")
    ELSE LET mconn == S.mcp_conn_fallback
             S1 == [S EXCEPT !.mcp_conn_fallback = null,
                             !.mcp_conn_fallback_time = null]
         IN  IF S1.mconns[mconn].mc_state # MC_S_FALLBACK
             THEN Throw(S1, "connFallbackRemove: mc_state is not FALLBACK")
             ELSE connDrain(S1, S1.mconns[mconn].mc_key)

\* connAlloc reporting a stale fallback without removing it
connAlloc_NoEvict(S, key) ==
    LET useAvail == S.mcp_avail # {}
        fb == S.mcp_conn_fallback
        staletimems == hrtimeMillisec(S.now - S.mcp_conn_fallback_time)
        Fail(T) == [T EXCEPT !.ret = RetError("NoBackendsError")]
        Grant(T, mconn) ==
            IF T.mconns[mconn].mc_nreqs < 0
            THEN Throw(T, "connAlloc: mc_nreqs negative")
            ELSE [T EXCEPT !.mconns[mconn].mc_nreqs = @ + 1,
                           !.allocs = Append(@,
                                        BorayConnectionAllocation(mconn)),
                           !.ret = RetValue(Len(T.allocs) + 1)]
    IN  IF useAvail
        THEN IF S.mconns[S.mcp_conns[key]].mc_state # MC_S_AVAIL
             THEN Throw(S, "connAlloc: mc_state is not MC_S_AVAIL")
             ELSE Grant(S, S.mcp_conns[key])
        ELSE IF fb = null
        THEN Fail(S)
        ELSE IF S.mcp_conn_fallback_time = null
        THEN Throw(S, "connAlloc: fallback time is not an hrtime")
        ELSE IF S.mconns[fb].mc_state # MC_S_FALLBACK
        THEN Throw(S, "connAlloc: mc_state is not MC_S_FALLBACK")
        ELSE IF staletimems > BorayFallbackMaxTime
        THEN Fail(S)
        ELSE Grant(S, fb)

\* connAlloc without the increment of mc_nreqs
connAlloc_NoIncrement(S, key) ==
    LET useAvail == S.mcp_avail # {}
        fb == S.mcp_conn_fallback
        staletimems == hrtimeMillisec(S.now - S.mcp_conn_fallback_time)
        Fail(T) == [T EXCEPT !.ret = RetError("NoBackendsError")]
        Grant(T, mconn) ==
            IF T.mconns[mconn].mc_nreqs < 0
            THEN Throw(T, "connAlloc: mc_nreqs negative")
            ELSE [T EXCEPT !.allocs = Append(@,
                                        BorayConnectionAllocation(mconn)),
                           !.ret = RetValue(Len(T.allocs) + 1)]
    IN  IF useAvail
        THEN IF S.mconns[S.mcp_conns[key]].mc_state # MC_S_AVAIL
             THEN Throw(S, "connAlloc: mc_state is not MC_S_AVAIL")
             ELSE Grant(S, S.mcp_conns[key])
        ELSE IF fb = null
        THEN Fail(S)
        ELSE IF S.mcp_conn_fallback_time = null
        THEN Throw(S, "connAlloc: fallback time is not an hrtime")
        ELSE IF S.mconns[fb].mc_state # MC_S_FALLBACK
        THEN Throw(S, "connAlloc: mc_state is not MC_S_FALLBACK")
        ELSE IF staletimems > BorayFallbackMaxTime
        THEN LET S1 == connFallbackRemove(S) IN
             IF S1.fault # NoFault THEN S1 ELSE Fail(S1)
        ELSE Grant(S, fb)

\* connAlloc with >= for > in the staleness test
connAlloc_StaleAtBound(S, key) ==
    LET useAvail == S.mcp_avail # {}
        fb == S.mcp_conn_fallback
        staletimems == hrtimeMillisec(S.now - S.mcp_conn_fallback_time)
        Fail(T) == [T EXCEPT !.ret = RetError("NoBackendsError")]
        Grant(T, mconn) ==
            IF T.mconns[mconn].mc_nreqs < 0
            THEN Throw(T, "connAlloc: mc_nreqs negative")
            ELSE [T EXCEPT !.mconns[mconn].mc_nreqs = @ + 1,
                           !.allocs = Append(@,
                                        BorayConnectionAllocation(mconn)),
                           !.ret = RetValue(Len(T.allocs) + 1)]
    IN  IF useAvail
        THEN IF S.mconns[S.mcp_conns[key]].mc_state # MC_S_AVAIL
             THEN Throw(S, "connAlloc: mc_state is not MC_S_AVAIL")
             ELSE Grant(S, S.mcp_conns[key])
        ELSE IF fb = null
        THEN Fail(S)
        ELSE IF S.mcp_conn_fallback_time = null
        THEN Throw(S, "connAlloc: fallback time is not an hrtime")
        ELSE IF S.mconns[fb].mc_state # MC_S_FALLBACK
        THEN Throw(S, "connAlloc: mc_state is not MC_S_FALLBACK")
        ELSE IF staletimems >= BorayFallbackMaxTime
        THEN LET S1 == connFallbackRemove(S) IN
             IF S1.fault # NoFault THEN S1 ELSE Fail(S1)
        ELSE Grant(S, fb)

\* connAlloc removing the fallback whatever its age
connAlloc_EvictAnyAge(S, key) ==
    LET useAvail == S.mcp_avail # {}
        fb == S.mcp_conn_fallback
        staletimems == hrtimeMillisec(S.now - S.mcp_conn_fallback_time)
        Fail(T) == [T EXCEPT !.ret = RetError("NoBackendsError")]
        Grant(T, mconn) ==
            IF T.mconns[mconn].mc_nreqs < 0
            THEN Throw(T, "connAlloc: mc_nreqs negative")
            ELSE [T EXCEPT !.mconns[mconn].mc_nreqs = @ + 1,
                           !.allocs = Append(@,
                                        BorayConnectionAllocation(mconn)),
                           !.ret = RetValue(Len(T.allocs) + 1)]
    IN  IF useAvail
        THEN IF S.mconns[S.mcp_conns[key]].mc_state # MC_S_AVAIL
             THEN Throw(S, "connAlloc: mc_state is not MC_S_AVAIL")
             ELSE Grant(S, S.mcp_conns[key])
        ELSE IF fb = null
        THEN Fail(S)
        ELSE IF S.mcp_conn_fallback_time = null
        THEN Throw(S, "connAlloc: fallback time is not an hrtime")
        ELSE IF S.mconns[fb].mc_state # MC_S_FALLBACK
        THEN Throw(S, "connAlloc: mc_state is not MC_S_FALLBACK")
        ELSE IF staletimems >= 0
        THEN LET S1 == connFallbackRemove(S) IN
             IF S1.fault # NoFault THEN S1 ELSE Fail(S1)
        ELSE Grant(S, fb)

\* connAlloc taking the time again when it allocates the fallback
connAlloc_RestampFallback(S, key) ==
    LET useAvail == S.mcp_avail # {}
        fb == S.mcp_conn_fallback
        staletimems == hrtimeMillisec(S.now - S.mcp_conn_fallback_time)
        Fail(T) == [T EXCEPT !.ret = RetError("NoBackendsError")]
        Grant(T, mconn) ==
            IF T.mconns[mconn].mc_nreqs < 0
            THEN Throw(T, "connAlloc: mc_nreqs negative")
            ELSE [T EXCEPT !.mconns[mconn].mc_nreqs = @ + 1,
                           !.allocs = Append(@,
                                        BorayConnectionAllocation(mconn)),
                           !.ret = RetValue(Len(T.allocs) + 1)]
    IN  IF useAvail
        THEN IF S.mconns[S.mcp_conns[key]].mc_state # MC_S_AVAIL
             THEN Throw(S, "connAlloc: mc_state is not MC_S_AVAIL")
             ELSE Grant(S, S.mcp_conns[key])
        ELSE IF fb = null
        THEN Fail(S)
        ELSE IF S.mcp_conn_fallback_time = null
        THEN Throw(S, "connAlloc: fallback time is not an hrtime")
        ELSE IF S.mconns[fb].mc_state # MC_S_FALLBACK
        THEN Throw(S, "connAlloc: mc_state is not MC_S_FALLBACK")
        ELSE IF staletimems > BorayFallbackMaxTime
        THEN LET S1 == connFallbackRemove(S) IN
             IF S1.fault # NoFault THEN S1 ELSE Fail(S1)
        ELSE Grant([S EXCEPT !.mcp_conn_fallback_time = S.now], fb)

\* "key" is the element jsprim.randElt() picks, used when mcp_avail is not
\* empty.
connAlloc(S, key) ==
    LET useAvail == S.mcp_avail # {}
        fb == S.mcp_conn_fallback
        staletimems == hrtimeMillisec(S.now - S.mcp_conn_fallback_time)
        Fail(T) == [T EXCEPT !.ret = RetError("NoBackendsError")]
        Grant(T, mconn) ==
            IF T.mconns[mconn].mc_nreqs < 0
            THEN Throw(T, "connAlloc: mc_nreqs negative")
            ELSE [T EXCEPT !.mconns[mconn].mc_nreqs = @ + 1,
                           !.allocs = Append(@,
                                        BorayConnectionAllocation(mconn)),
                           !.ret = RetValue(Len(T.allocs) + 1)]
    IN  IF useAvail
        THEN IF S.mconns[S.mcp_conns[key]].mc_state # MC_S_AVAIL
             THEN Throw(S, "connAlloc: mc_state is not MC_S_AVAIL")
             ELSE Grant(S, S.mcp_conns[key])
        ELSE IF fb = null
        THEN Fail(S)
        ELSE IF S.mcp_conn_fallback_time = null
        THEN Throw(S, "connAlloc: fallback time is not an hrtime")
        ELSE IF S.mconns[fb].mc_state # MC_S_FALLBACK
        THEN Throw(S, "connAlloc: mc_state is not MC_S_FALLBACK")
        ELSE IF staletimems > BorayFallbackMaxTime
        THEN LET S1 == connFallbackRemove(S) IN
             IF S1.fault # NoFault THEN S1 ELSE Fail(S1)
        ELSE Grant(S, fb)

\* connRelease without the assertion on mca_released
connRelease_NoReleasedCheck(S, aconn) ==
    IF FALSE
    THEN Throw(S, "double-release of Boray connection")
    ELSE LET mconn == S.allocs[aconn].mca_mconn IN
         IF ~(S.mconns[mconn].mc_nreqs > 0)
         THEN Throw(S, "connRelease: mc_nreqs is not positive")
         ELSE LET S1 == [S EXCEPT !.allocs[aconn].mca_released = TRUE,
                                  !.mconns[mconn].mc_nreqs = @ - 1]
                  key == S1.mconns[mconn].mc_key
                  st == S1.mconns[mconn].mc_state
              IN  IF st = MC_S_AVAIL
                  THEN IF key \notin S1.mcp_avail
                       THEN Throw(S1, "connRelease: AVAIL key not in mcp_avail")
                       ELSE S1
                  ELSE IF key \in S1.mcp_avail
                  THEN Throw(S1, "connRelease: retired key in mcp_avail")
                  ELSE IF st \notin {MC_S_DRAIN, MC_S_FALLBACK}
                  THEN Throw(S1, "connRelease: mc_state is not DRAIN or FALLBACK")
                  ELSE IF st = MC_S_DRAIN /\ S1.mconns[mconn].mc_nreqs = 0
                  THEN connDelete(S1, key)
                  ELSE S1

\* connRelease deleting an idle record whether DRAINING or FALLBACK
connRelease_DeleteIdleFallback(S, aconn) ==
    IF S.allocs[aconn].mca_released
    THEN Throw(S, "double-release of Boray connection")
    ELSE LET mconn == S.allocs[aconn].mca_mconn IN
         IF ~(S.mconns[mconn].mc_nreqs > 0)
         THEN Throw(S, "connRelease: mc_nreqs is not positive")
         ELSE LET S1 == [S EXCEPT !.allocs[aconn].mca_released = TRUE,
                                  !.mconns[mconn].mc_nreqs = @ - 1]
                  key == S1.mconns[mconn].mc_key
                  st == S1.mconns[mconn].mc_state
              IN  IF st = MC_S_AVAIL
                  THEN IF key \notin S1.mcp_avail
                       THEN Throw(S1, "connRelease: AVAIL key not in mcp_avail")
                       ELSE S1
                  ELSE IF key \in S1.mcp_avail
                  THEN Throw(S1, "connRelease: retired key in mcp_avail")
                  ELSE IF st \notin {MC_S_DRAIN, MC_S_FALLBACK}
                  THEN Throw(S1, "connRelease: mc_state is not DRAIN or FALLBACK")
                  ELSE IF S1.mconns[mconn].mc_nreqs = 0
                  THEN connDelete(S1, key)
                  ELSE S1

\* connRelease without the deletion of a drained connection
connRelease_NoDelete(S, aconn) ==
    IF S.allocs[aconn].mca_released
    THEN Throw(S, "double-release of Boray connection")
    ELSE LET mconn == S.allocs[aconn].mca_mconn IN
         IF ~(S.mconns[mconn].mc_nreqs > 0)
         THEN Throw(S, "connRelease: mc_nreqs is not positive")
         ELSE LET S1 == [S EXCEPT !.allocs[aconn].mca_released = TRUE,
                                  !.mconns[mconn].mc_nreqs = @ - 1]
                  key == S1.mconns[mconn].mc_key
                  st == S1.mconns[mconn].mc_state
              IN  IF st = MC_S_AVAIL
                  THEN IF key \notin S1.mcp_avail
                       THEN Throw(S1, "connRelease: AVAIL key not in mcp_avail")
                       ELSE S1
                  ELSE IF key \in S1.mcp_avail
                  THEN Throw(S1, "connRelease: retired key in mcp_avail")
                  ELSE IF st \notin {MC_S_DRAIN, MC_S_FALLBACK}
                  THEN Throw(S1, "connRelease: mc_state is not DRAIN or FALLBACK")
                  ELSE S1

\* connRelease without the decrement of mc_nreqs
connRelease_NoDecrement(S, aconn) ==
    IF S.allocs[aconn].mca_released
    THEN Throw(S, "double-release of Boray connection")
    ELSE LET mconn == S.allocs[aconn].mca_mconn IN
         IF ~(S.mconns[mconn].mc_nreqs > 0)
         THEN Throw(S, "connRelease: mc_nreqs is not positive")
         ELSE LET S1 == [S EXCEPT !.allocs[aconn].mca_released = TRUE]
                  key == S1.mconns[mconn].mc_key
                  st == S1.mconns[mconn].mc_state
              IN  IF st = MC_S_AVAIL
                  THEN IF key \notin S1.mcp_avail
                       THEN Throw(S1, "connRelease: AVAIL key not in mcp_avail")
                       ELSE S1
                  ELSE IF key \in S1.mcp_avail
                  THEN Throw(S1, "connRelease: retired key in mcp_avail")
                  ELSE IF st \notin {MC_S_DRAIN, MC_S_FALLBACK}
                  THEN Throw(S1, "connRelease: mc_state is not DRAIN or FALLBACK")
                  ELSE IF st = MC_S_DRAIN /\ S1.mconns[mconn].mc_nreqs = 0
                  THEN connDelete(S1, key)
                  ELSE S1

connRelease(S, aconn) ==
    IF S.allocs[aconn].mca_released
    THEN Throw(S, "double-release of Boray connection")
    ELSE LET mconn == S.allocs[aconn].mca_mconn IN
         IF ~(S.mconns[mconn].mc_nreqs > 0)
         THEN Throw(S, "connRelease: mc_nreqs is not positive")
         ELSE LET S1 == [S EXCEPT !.allocs[aconn].mca_released = TRUE,
                                  !.mconns[mconn].mc_nreqs = @ - 1]
                  key == S1.mconns[mconn].mc_key
                  st == S1.mconns[mconn].mc_state
              IN  IF st = MC_S_AVAIL
                  THEN IF key \notin S1.mcp_avail
                       THEN Throw(S1, "connRelease: AVAIL key not in mcp_avail")
                       ELSE S1
                  ELSE IF key \in S1.mcp_avail
                  THEN Throw(S1, "connRelease: retired key in mcp_avail")
                  ELSE IF st \notin {MC_S_DRAIN, MC_S_FALLBACK}
                  THEN Throw(S1, "connRelease: mc_state is not DRAIN or FALLBACK")
                  ELSE IF st = MC_S_DRAIN /\ S1.mconns[mconn].mc_nreqs = 0
                  THEN connDelete(S1, key)
                  ELSE S1

\* connAdd without the call of connFallbackRemove
connAdd_KeepFallback(S, key) ==
    IF S.mcp_conns[key] # null
    THEN Throw(S, "connAdd: key already in mcp_conns")
    ELSE IF key \in S.mcp_avail
    THEN Throw(S, "connAdd: key already in mcp_avail")
    ELSE LET mconn == Len(S.mconns) + 1
             S1 == [S EXCEPT !.mconns = Append(@, BorayConnection(key)),
                             !.mcp_conns[key] = mconn,
                             !.mcp_avail = @ \cup {key}]
         IN  S1

\* connAdd without the entry in mcp_avail
connAdd_NoAvail(S, key) ==
    IF S.mcp_conns[key] # null
    THEN Throw(S, "connAdd: key already in mcp_conns")
    ELSE IF key \in S.mcp_avail
    THEN Throw(S, "connAdd: key already in mcp_avail")
    ELSE LET mconn == Len(S.mconns) + 1
             S1 == [S EXCEPT !.mconns = Append(@, BorayConnection(key)),
                             !.mcp_conns[key] = mconn]
         IN  connFallbackRemove(S1)

\* connAdd without its two assertions
connAdd_NoKeyAsserts(S, key) ==
    LET mconn == Len(S.mconns) + 1
        S1 == [S EXCEPT !.mconns = Append(@, BorayConnection(key)),
                        !.mcp_conns[key] = mconn,
                        !.mcp_avail = @ \cup {key}]
    IN  connFallbackRemove(S1)

connAdd(S, key) ==
    IF S.mcp_conns[key] # null
    THEN Throw(S, "connAdd: key already in mcp_conns")
    ELSE IF key \in S.mcp_avail
    THEN Throw(S, "connAdd: key already in mcp_avail")
    ELSE LET mconn == Len(S.mconns) + 1
             S1 == [S EXCEPT !.mconns = Append(@, BorayConnection(key)),
                             !.mcp_conns[key] = mconn,
                             !.mcp_avail = @ \cup {key}]
         IN  connFallbackRemove(S1)

\* connRetire saving the fallback without its time
connRetire_NoStamp(S, key, destroyed) ==
    IF S.mcp_conns[key] = null
    THEN Throw(S, "connRetire: key not in mcp_conns")
    ELSE IF key \notin S.mcp_avail
    THEN Throw(S, "connRetire: key not in mcp_avail")
    ELSE LET mconn == S.mcp_conns[key] IN
         IF S.mconns[mconn].mc_state # MC_S_AVAIL
         THEN Throw(S, "connRetire: mc_state is not MC_S_AVAIL")
         ELSE LET S1 == [S EXCEPT !.mcp_avail = @ \ {key}] IN
              IF S1.mcp_avail # {} \/ ~S1.mcp_fallback_enable
                 \/ destroyed
              THEN connDrain(S1, key)
              ELSE IF S1.mcp_conn_fallback # null
              THEN Throw(S1, "connRetire: a fallback already exists")
              ELSE IF S1.mcp_conn_fallback_time # null
              THEN Throw(S1, "connRetire: a fallback time already exists")
              ELSE LET S2 == SetState(S1, mconn, MC_S_FALLBACK) IN
                   [S2 EXCEPT !.mcp_conn_fallback = mconn]

\* connRetire without the test of mc_conn.destroyed
connRetire_IgnoreDestroyed(S, key, destroyed) ==
    IF S.mcp_conns[key] = null
    THEN Throw(S, "connRetire: key not in mcp_conns")
    ELSE IF key \notin S.mcp_avail
    THEN Throw(S, "connRetire: key not in mcp_avail")
    ELSE LET mconn == S.mcp_conns[key] IN
         IF S.mconns[mconn].mc_state # MC_S_AVAIL
         THEN Throw(S, "connRetire: mc_state is not MC_S_AVAIL")
         ELSE LET S1 == [S EXCEPT !.mcp_avail = @ \ {key}] IN
              IF S1.mcp_avail # {} \/ ~S1.mcp_fallback_enable
              THEN connDrain(S1, key)
              ELSE IF S1.mcp_conn_fallback # null
              THEN Throw(S1, "connRetire: a fallback already exists")
              ELSE IF S1.mcp_conn_fallback_time # null
              THEN Throw(S1, "connRetire: a fallback time already exists")
              ELSE LET S2 == SetState(S1, mconn, MC_S_FALLBACK) IN
                   [S2 EXCEPT !.mcp_conn_fallback = mconn,
                              !.mcp_conn_fallback_time = S2.now]

\* connRetire keeping the connection as the fallback whether or not others
\* are available
connRetire_FallbackWhileAvail(S, key, destroyed) ==
    IF S.mcp_conns[key] = null
    THEN Throw(S, "connRetire: key not in mcp_conns")
    ELSE IF key \notin S.mcp_avail
    THEN Throw(S, "connRetire: key not in mcp_avail")
    ELSE LET mconn == S.mcp_conns[key] IN
         IF S.mconns[mconn].mc_state # MC_S_AVAIL
         THEN Throw(S, "connRetire: mc_state is not MC_S_AVAIL")
         ELSE LET S1 == [S EXCEPT !.mcp_avail = @ \ {key}] IN
              IF ~S1.mcp_fallback_enable \/ destroyed
                 \/ S1.mcp_conn_fallback # null
              THEN connDrain(S1, key)
              ELSE LET S2 == SetState(S1, mconn, MC_S_FALLBACK) IN
                   [S2 EXCEPT !.mcp_conn_fallback = mconn,
                              !.mcp_conn_fallback_time = S2.now]

\* connRetire without the assertions on mcp_avail and mc_state
connRetire_NoAvailAsserts(S, key, destroyed) ==
    IF S.mcp_conns[key] = null
    THEN Throw(S, "connRetire: key not in mcp_conns")
    ELSE LET mconn == S.mcp_conns[key]
             S1 == [S EXCEPT !.mcp_avail = @ \ {key}] IN
         IF S1.mcp_avail # {} \/ ~S1.mcp_fallback_enable
            \/ destroyed
         THEN connDrain(S1, key)
         ELSE IF S1.mcp_conn_fallback # null
         THEN Throw(S1, "connRetire: a fallback already exists")
         ELSE IF S1.mcp_conn_fallback_time # null
         THEN Throw(S1, "connRetire: a fallback time already exists")
         ELSE LET S2 == SetState(S1, mconn, MC_S_FALLBACK) IN
              [S2 EXCEPT !.mcp_conn_fallback = mconn,
                         !.mcp_conn_fallback_time = S2.now]

\* "destroyed" is the value of mconn.mc_conn.destroyed, a field of the cueball
\* connection, at the time of the call.
connRetire(S, key, destroyed) ==
    IF S.mcp_conns[key] = null
    THEN Throw(S, "connRetire: key not in mcp_conns")
    ELSE IF key \notin S.mcp_avail
    THEN Throw(S, "connRetire: key not in mcp_avail")
    ELSE LET mconn == S.mcp_conns[key] IN
         IF S.mconns[mconn].mc_state # MC_S_AVAIL
         THEN Throw(S, "connRetire: mc_state is not MC_S_AVAIL")
         ELSE LET S1 == [S EXCEPT !.mcp_avail = @ \ {key}] IN
              IF S1.mcp_avail # {} \/ ~S1.mcp_fallback_enable
                 \/ destroyed
              THEN connDrain(S1, key)
              ELSE IF S1.mcp_conn_fallback # null
              THEN Throw(S1, "connRetire: a fallback already exists")
              ELSE IF S1.mcp_conn_fallback_time # null
              THEN Throw(S1, "connRetire: a fallback time already exists")
              ELSE LET S2 == SetState(S1, mconn, MC_S_FALLBACK) IN
                   [S2 EXCEPT !.mcp_conn_fallback = mconn,
                              !.mcp_conn_fallback_time = S2.now]

\* fallbackDisable without the call of connFallbackRemove
fallbackDisable_KeepFallback(S) ==
    [S EXCEPT !.mcp_fallback_enable = FALSE]

fallbackDisable(S) ==
    connFallbackRemove([S EXCEPT !.mcp_fallback_enable = FALSE])


\* ----------------------------------------------------- client operations
setImmediate(S, fn, arg) ==
    [S EXCEPT !.immediates = Append(@, [fn |-> fn, arg |-> arg])]

\* The caller's callback or listener runs.  "active", "released", "nactive"
\* and "nreqs" are what it finds when it starts: whether the context is in
\* activeContexts, whether its allocation has been released, the client's
\* nactive and the mc_nreqs of the context's connection.
Deliver(S, ev, rpcctx, arg) ==
    [S EXCEPT !.delivered = Append(@,
        [ ev |-> ev, ctx |-> rpcctx, arg |-> arg,
          active |-> IF rpcctx = null THEN FALSE
                     ELSE S.activeContexts[S.ctxs[rpcctx].mc_id] = rpcctx,
          released |-> IF rpcctx = null THEN TRUE
                       ELSE S.allocs[S.ctxs[rpcctx].mc_conn].mca_released,
          nactive |-> S.nactive,
          nreqs |-> IF rpcctx = null THEN null
                    ELSE S.mconns[S.allocs[S.ctxs[rpcctx].mc_conn].mca_mconn]
                            .mc_nreqs ])]

\* emitter.emit('error', err): Node throws err when the emitter has no
\* listener for 'error'
emitError(S, rpcctx, err, handled) ==
    IF handled
    THEN Deliver(S, "error", rpcctx, err)
    ELSE Throw(S, "unhandled 'error' event")

\* the listener closeFini puts on the ConnectionSet's 'stateChanged'
onStateChangedAfterClose(S, st) ==
    IF st = "stopped"
    THEN [S EXCEPT !.closeEmitted = @ + 1]
    ELSE S

\* closeFini ends with this.cueball.stop() and this.cueballResolver.stop()
closeFini(S) ==
    IF S.closeState # BORAY_CS_CLOSING
    THEN Throw(S, "closeFini: closeState is not closing")
    ELSE IF S.nactive # 0
    THEN Throw(S, "closeFini: nactive is not 0")
    ELSE IF \E i \in CtxIds : S.activeContexts[i] # null
    THEN Throw(S, "closeFini: activeContexts is not empty")
    ELSE [S EXCEPT !.ncloseFini = @ + 1,
                   !.cueballState = "stopping",
                   !.resolverState = "stopping"]

\* close() scheduling closeFini whether or not requests are outstanding
close_FiniWithActive(S) ==
    IF S.closeState # BORAY_CS_OPEN
    THEN S
    ELSE LET S1 == [S EXCEPT !.closeState = BORAY_CS_CLOSING,
                             !.nactiveAtClose = S.nactive]
             S2 == fallbackDisable(S1)
         IN  IF S2.fault # NoFault
             THEN S2
             ELSE setImmediate(
                    [S2 EXCEPT !.detached = @ \cup
                       { S2.allocs[S2.ctxs[S2.activeContexts[i]].mc_conn].mca_mconn :
                           i \in { j \in CtxIds : S2.activeContexts[j] # null } }],
                    "closeImmediate", null)

\* close() without the test of closeState
close_NoGuard(S) ==
    IF FALSE
    THEN S
    ELSE LET S1 == [S EXCEPT !.closeState = BORAY_CS_CLOSING,
                             !.nactiveAtClose = S.nactive]
             S2 == fallbackDisable(S1)
         IN  IF S2.fault # NoFault
             THEN S2
             ELSE IF S2.nactive = 0
             THEN setImmediate(S2, "closeImmediate", null)
             ELSE [S2 EXCEPT !.detached = @ \cup
                     { S2.allocs[S2.ctxs[S2.activeContexts[i]].mc_conn].mca_mconn :
                         i \in { j \in CtxIds : S2.activeContexts[j] # null } }]

\* close() calling closeFini itself when no request is outstanding
close_SyncFini(S) ==
    IF S.closeState # BORAY_CS_OPEN
    THEN S
    ELSE LET S1 == [S EXCEPT !.closeState = BORAY_CS_CLOSING,
                             !.nactiveAtClose = S.nactive]
             S2 == fallbackDisable(S1)
         IN  IF S2.fault # NoFault
             THEN S2
             ELSE IF S2.nactive = 0
             THEN closeFini(S2)
             ELSE [S2 EXCEPT !.detached = @ \cup
                     { S2.allocs[S2.ctxs[S2.activeContexts[i]].mc_conn].mca_mconn :
                         i \in { j \in CtxIds : S2.activeContexts[j] # null } }]

close(S) ==
    IF S.closeState # BORAY_CS_OPEN
    THEN S
    ELSE LET S1 == [S EXCEPT !.closeState = BORAY_CS_CLOSING,
                             !.nactiveAtClose = S.nactive]
             S2 == fallbackDisable(S1)
         IN  IF S2.fault # NoFault
             THEN S2
             ELSE IF S2.nactive = 0
             THEN setImmediate(S2, "closeImmediate", null)
             ELSE [S2 EXCEPT !.detached = @ \cup
                     { S2.allocs[S2.ctxs[S2.activeContexts[i]].mc_conn].mca_mconn :
                         i \in { j \in CtxIds : S2.activeContexts[j] # null } }]

\* new Date(): the model keeps only that a time was recorded
aDate == 0

\* The listener the constructor puts on the ConnectionSet's 'stateChanged'.
\* "handled" tells whether the client has a listener for 'error'.
onCueballStateChange(S, st, handled) ==
    IF S.timeConnected # null
    THEN Throw(S, "onCueballStateChange: timeConnected is not null")
    ELSE IF S.timeCueballInitFailed # null
    THEN Throw(S, "onCueballStateChange: timeCueballInitFailed is not null")
    ELSE IF st = "running"
    THEN Deliver([S EXCEPT !.timeConnected = aDate,
                           !.stateChangedListener = FALSE],
                 "connect", null, "none")
    ELSE IF S.failFast /\ st = "failed"
    THEN LET S1 == [S EXCEPT !.timeCueballInitFailed = aDate,
                             !.stateChangedListener = FALSE]
             S2 == emitError(S1, null, "cueball failed", handled)
         IN  IF S2.fault # NoFault THEN S2 ELSE close(S2)
    ELSE S

\* ctxCreateCommon without the increment of ncontexts
ctxCreateCommon_SameId(S, conn, kind) ==
    IF S.closeState # BORAY_CS_OPEN
    THEN Throw(S, "ctxCreateCommon: closeState is not open")
    ELSE LET S1 == [S EXCEPT !.nactive = @ + 1]
             id == S1.ncontexts
             rpcctx == Len(S1.ctxs) + 1
             S2 == [S1 EXCEPT !.ctxs = Append(@,
                                         BorayRpcContext(id, conn, kind))]
         IN  IF S2.activeContexts[id] # null
             THEN Throw(S2, "ctxCreateCommon: id already in activeContexts")
             ELSE [S2 EXCEPT !.activeContexts[id] = rpcctx,
                             !.ret = RetValue(rpcctx)]

\* The id handed to the constructor stays far below Math.pow(2, 53) within the
\* bounds of the model, so the constructor's range assertion holds.
ctxCreateCommon(S, conn, kind) ==
    IF S.closeState # BORAY_CS_OPEN
    THEN Throw(S, "ctxCreateCommon: closeState is not open")
    ELSE LET S1 == [S EXCEPT !.nactive = @ + 1]
             id == S1.ncontexts
             rpcctx == Len(S1.ctxs) + 1
             S2 == [S1 EXCEPT !.ncontexts = @ + 1,
                              !.ctxs = Append(@,
                                         BorayRpcContext(id, conn, kind))]
         IN  IF S2.activeContexts[id] # null
             THEN Throw(S2, "ctxCreateCommon: id already in activeContexts")
             ELSE [S2 EXCEPT !.activeContexts[id] = rpcctx,
                             !.ret = RetValue(rpcctx)]

\* ctxCreateForCallback calling the callback itself when it has no connection
ctxCreateForCallback_SyncError(S, key) ==
    IF S.closeState # BORAY_CS_OPEN
    THEN [Deliver(S, "callback", null, "boray client has been closed")
            EXCEPT !.ret = RetValue(null)]
    ELSE LET S1 == connAlloc(S, key) IN
         IF S1.fault # NoFault
         THEN S1
         ELSE IF S1.ret.err # "none"
         THEN [Deliver(S1, "callback", null, S1.ret.err)
                 EXCEPT !.ret = RetValue(null)]
         ELSE ctxCreateCommon(S1, S1.ret.val, "callback")

ctxCreateForCallback(S, key) ==
    IF S.closeState # BORAY_CS_OPEN
    THEN [setImmediate(S, "callback", "boray client has been closed")
            EXCEPT !.ret = RetValue(null)]
    ELSE LET S1 == connAlloc(S, key) IN
         IF S1.fault # NoFault
         THEN S1
         ELSE IF S1.ret.err # "none"
         THEN [setImmediate(S1, "callback", S1.ret.err)
                 EXCEPT !.ret = RetValue(null)]
         ELSE ctxCreateCommon(S1, S1.ret.val, "callback")

\* ctxCreateForEmitter without the check of closeState
ctxCreateForEmitter_NoClosedCheck(S, key) ==
    LET S1 == connAlloc(S, key) IN
    IF S1.fault # NoFault
    THEN S1
    ELSE IF S1.ret.err # "none"
    THEN [S1 EXCEPT !.ret = RetValue(null)]
    ELSE ctxCreateCommon(S1, S1.ret.val, "emitter")

ctxCreateForEmitter(S, key) ==
    IF S.closeState # BORAY_CS_OPEN
    THEN [S EXCEPT !.ret = RetValue(null)]
    ELSE LET S1 == connAlloc(S, key) IN
         IF S1.fault # NoFault
         THEN S1
         ELSE IF S1.ret.err # "none"
         THEN [S1 EXCEPT !.ret = RetValue(null)]
         ELSE ctxCreateCommon(S1, S1.ret.val, "emitter")

\* ctxRelease without the call of pool.connRelease
ctxRelease_KeepConnection(S, rpcctx) ==
    IF ~(S.nactive > 0)
    THEN Throw(S, "ctxRelease: nactive is not positive")
    ELSE LET S1 == [S EXCEPT !.nactive = @ - 1]
             id == S1.ctxs[rpcctx].mc_id
         IN  IF S1.activeContexts[id] # rpcctx
             THEN Throw(S1, "ctxRelease: context is not in activeContexts")
             ELSE LET S3 == [S1 EXCEPT !.activeContexts[id] = null]
                  IN  IF S3.nactive = 0
                         /\ S3.closeState = BORAY_CS_CLOSING
                      THEN closeFini(S3)
                      ELSE S3

ctxRelease(S, rpcctx) ==
    IF ~(S.nactive > 0)
    THEN Throw(S, "ctxRelease: nactive is not positive")
    ELSE LET S1 == [S EXCEPT !.nactive = @ - 1]
             id == S1.ctxs[rpcctx].mc_id
         IN  IF S1.activeContexts[id] # rpcctx
             THEN Throw(S1, "ctxRelease: context is not in activeContexts")
             ELSE LET S2 == [S1 EXCEPT !.activeContexts[id] = null]
                      S3 == connRelease(S2, S2.ctxs[rpcctx].mc_conn)
                  IN  IF S3.fault # NoFault
                      THEN S3
                      ELSE IF S3.nactive = 0
                              /\ S3.closeState = BORAY_CS_CLOSING
                      THEN closeFini(S3)
                      ELSE S3

\* makeReleaseCb's function calling cb before it releases the context
onCallbackRpcComplete_CallbackFirst(S, rpcctx, err) ==
    ctxRelease(Deliver(S, "callback", rpcctx, err), rpcctx)

\* the function makeReleaseCb(rpcctx, cb) returns, called with err
onCallbackRpcComplete(S, rpcctx, err) ==
    LET S1 == ctxRelease(S, rpcctx) IN
    IF S1.fault # NoFault
    THEN S1
    ELSE Deliver(S1, "callback", rpcctx, err)

\* releaseWhenDone(rpcctx, emitter): a listener for RPC_DONE_EVENT
releaseWhenDone(S, rpcctx) ==
    [S EXCEPT !.ctxs[rpcctx].listens = RPC_DONE_EVENT]

\* the listener releaseWhenDone(rpcctx, emitter) installs
onEmitterRpcComplete(S, rpcctx) ==
    IF S.ctxs[rpcctx].done
    THEN Throw(S, "releaseWhenDone: done twice")
    ELSE ctxRelease([S EXCEPT !.ctxs[rpcctx].done = TRUE], rpcctx)

\* res.emit(event) for the internal event of the context's emitter
emitRpcDone(S, rpcctx) ==
    IF S.ctxs[rpcctx].listens = S.ctxs[rpcctx].emits
    THEN onEmitterRpcComplete(S, rpcctx)
    ELSE S

\* the callback listBuckets and listObjects hand to rpc.rpcCommon, called
\* with err when the request has ended: 'error' or 'end' on the emitter the
\* caller holds, then the internal event
onStreamRpcComplete(S, rpcctx, err, handled) ==
    LET S1 == IF err # "none"
              THEN emitError(S, rpcctx, err, handled)
              ELSE Deliver(S, "end", rpcctx, "none")
    IN  IF S1.fault # NoFault
        THEN S1
        ELSE emitRpcDone(S1, rpcctx)

\* a callback-style method: getBucket(owner, bucket, vnode, req_id, cb)
getBucket(S, key) ==
    ctxCreateForCallback(S, key)

\* rpcCommonBufferData's callback, called by rpcCommon with err when the Fast
\* request has ended, "data" being the messages received
rpcCommonBufferData(err, data) ==
    IF err # "none"
    THEN [ err |-> err, data |-> << >> ]
    ELSE [ err |-> "none", data |-> data ]

\* rpcCommonSingleMessage taking the first message when there are several
rpcCommonSingleMessage_FirstOfMany(err, data) ==
    LET r == rpcCommonBufferData(err, data) IN
    IF r.err # "none"
    THEN RetError(r.err)
    ELSE IF Len(r.data) < 1
    THEN RetError("bad response: expected 1 message")
    ELSE RetValue(r.data[1])

\* the arguments rpcCommonSingleMessage calls its callback with
rpcCommonSingleMessage(err, data) ==
    LET r == rpcCommonBufferData(err, data) IN
    IF r.err # "none"
    THEN RetError(r.err)
    ELSE IF Len(r.data) # 1
    THEN RetError("bad response: expected 1 message")
    ELSE RetValue(r.data[1])

\* the arguments the callback getPlacementData gives rpcCommonBufferData
\* calls the release wrapper with
onPlacementData(err, placementData) ==
    LET r == rpcCommonBufferData(err, placementData) IN
    IF r.err # "none"
    THEN RetError(r.err)
    ELSE IF Len(r.data) # 1
    THEN RetError("bad server response: expected 1 JSON object")
    ELSE RetValue(r.data[1])

\* getBucket(..., cb) or getPlacementData(cb), with the request it makes when
\* it has a context.  getPlacementData builds makeReleaseCb(rpcctx, cb) before
\* it tests rpcctx; the wrapper is a closure, which nothing calls when rpcctx
\* is null.
callbackMethod(S, key, method) ==
    LET S1 == ctxCreateForCallback(S, key) IN
    IF S1.fault # NoFault
    THEN S1
    ELSE IF S1.ret.val = null
    THEN S1
    ELSE [S1 EXCEPT !.ctxs[S1.ret.val].method = method]

\* req 'data': rpcCommonBufferData pushes the message
onData(S, rpcctx, obj) ==
    [S EXCEPT !.ctxs[rpcctx].data = Append(@, obj)]

\* the functions of objects.js that make their request with wrapErrors: true
WrapMethods == {"createObject"}

\* what msg.error can be: absent ("none"), an object with the name of an
\* error, or an object whose name is not a string ("malformed")
MsgErrors == {"none", "NotFoundError", "PreconditionFailedError", "malformed"}

\* the name of the VError rpcWrapEmbeddedError(msg) returns, "none" for null,
\* "threw" when assert.string(msg.error.name) fails
rpcWrapEmbeddedError(error) ==
    IF error = "none" THEN "none"
    ELSE IF error = "malformed" THEN "threw"
    ELSE error

\* the req.read() loop of the 'readable' listener, without the test that
\* ignores what follows an error
RECURSIVE onReadable_InspectAll(_, _)
onReadable_InspectAll(S, rpcctx) ==
    LET c == S.ctxs[rpcctx] IN
    IF c.nread = Len(c.msgs)
    THEN S
    ELSE LET obj == c.nread + 1
             S1 == [S EXCEPT !.ctxs[rpcctx].nread = obj]
             err == rpcWrapEmbeddedError(c.msgs[obj])
         IN  IF err = "threw"
             THEN Throw(S1, "msg.error.name (string) is required")
             ELSE IF err # "none"
             THEN [S1 EXCEPT !.ctxs[rpcctx].embeddedError = err]
             ELSE onReadable_InspectAll(
                      [S1 EXCEPT !.ctxs[rpcctx].data = Append(@, obj)],
                      rpcctx)

\* req 'readable' with wrapErrors: the listener reads until req.read() gives
\* null; a message is the number of its place in the response, and
\* res.write(obj) hands it to the 'data' listener of rpcCommonBufferData
RECURSIVE onReadable(_, _)
onReadable(S, rpcctx) ==
    LET c == S.ctxs[rpcctx] IN
    IF c.nread = Len(c.msgs)
    THEN S
    ELSE LET obj == c.nread + 1
             S1 == [S EXCEPT !.ctxs[rpcctx].nread = obj]
             err == rpcWrapEmbeddedError(c.msgs[obj])
         IN  IF c.embeddedError # "none"
             THEN S1
             ELSE IF err = "threw"
             THEN Throw(S1, "msg.error.name (string) is required")
             ELSE IF err # "none"
             THEN [S1 EXCEPT !.ctxs[rpcctx].embeddedError = err]
             ELSE onReadable([S1 EXCEPT !.ctxs[rpcctx].data = Append(@, obj)],
                             rpcctx)

\* what rpcCommon calls its callback with: the listener of 'error' gives the
\* error of the request, the listener of 'end' the embedded error if one was
\* seen
rpcCommonResult(c, err) ==
    IF err = "none" THEN c.embeddedError ELSE err

\* onRequestDone releasing the context of a failed request without a call of
\* the completion
onRequestDone_DropError(S, rpcctx, err) ==
    LET c == S.ctxs[rpcctx]
        arguments == IF c.method = "getPlacementData"
                     THEN onPlacementData(err, c.data)
                     ELSE rpcCommonSingleMessage(rpcCommonResult(c, err),
                                                 c.data)
    IN  IF err # "none"
        THEN ctxRelease(S, rpcctx)
        ELSE onCallbackRpcComplete(S, rpcctx, arguments)

\* req 'end' (err is "none") or 'error': rpcCommon calls its callback, which
\* ends in the release wrapper of the method
onRequestDone(S, rpcctx, err) ==
    LET c == S.ctxs[rpcctx]
        arguments == IF c.method = "getPlacementData"
                     THEN onPlacementData(err, c.data)
                     ELSE rpcCommonSingleMessage(rpcCommonResult(c, err),
                                                 c.data)
    IN  onCallbackRpcComplete(S, rpcctx, arguments)

\* a streaming method: listBuckets(...) or listObjects(...), which returns
\* the emitter of emitUnavailable() when it gets no context
listStream(S, key, method) ==
    LET S1 == ctxCreateForEmitter(S, key) IN
    IF S1.fault # NoFault
    THEN S1
    ELSE IF S1.ret.val = null
    THEN setImmediate(S1, "emitUnavailable", "no active connections")
    ELSE LET rpcctx == S1.ret.val
             S2 == [S1 EXCEPT !.ctxs[rpcctx].emits = DoneEventOf(method)]
         IN  releaseWhenDone(S2, rpcctx)

\* ------------------------------------------------------ state transitions
Commit(S) ==
    /\ mconns' = S.mconns
    /\ allocs' = S.allocs
    /\ mcp_conns' = S.mcp_conns
    /\ mcp_avail' = S.mcp_avail
    /\ mcp_fallback_enable' = S.mcp_fallback_enable
    /\ mcp_conn_fallback' = S.mcp_conn_fallback
    /\ mcp_conn_fallback_time' = S.mcp_conn_fallback_time
    /\ ctxs' = S.ctxs
    /\ nactive' = S.nactive
    /\ ncontexts' = S.ncontexts
    /\ activeContexts' = S.activeContexts
    /\ closeState' = S.closeState
    /\ nactiveAtClose' = S.nactiveAtClose
    /\ immediates' = S.immediates
    /\ detached' = S.detached
    /\ ncloseFini' = S.ncloseFini
    /\ cueballState' = S.cueballState
    /\ resolverState' = S.resolverState
    /\ closeEmitted' = S.closeEmitted
    /\ failFast' = S.failFast
    /\ timeConnected' = S.timeConnected
    /\ timeCueballInitFailed' = S.timeCueballInitFailed
    /\ stateChangedListener' = S.stateChangedListener
    /\ sawRunning' = S.sawRunning
    /\ delivered' = S.delivered
    /\ ret' = S.ret
    /\ fault' = S.fault
    /\ now' = IF S.mcp_conn_fallback_time = null THEN 0 ELSE now

Running == fault = NoFault

\* new BorayClient(options), which makes the pool: new BorayConnectionPool(args)
Constructed(options_failFast) ==
    /\ now = 0
    /\ mconns = << >>
    /\ allocs = << >>
    /\ mcp_conns = [k \in Keys |-> null]
    /\ mcp_avail = {}
    /\ mcp_fallback_enable = TRUE
    /\ mcp_conn_fallback = null
    /\ mcp_conn_fallback_time = null
    /\ ctxs = << >>
    /\ nactive = 0
    /\ ncontexts = 0
    /\ activeContexts = [i \in CtxIds |-> null]
    /\ closeState = BORAY_CS_OPEN
    /\ nactiveAtClose = null
    /\ immediates = << >>
    /\ detached = {}
    /\ ncloseCalls = 0
    /\ ncloseFini = 0
    /\ cueballState = "starting"
    /\ resolverState = "running"
    /\ closeEmitted = 0
    /\ failFast = options_failFast
    /\ timeConnected = null
    /\ timeCueballInitFailed = null
    /\ stateChangedListener = TRUE
    /\ sawRunning = FALSE
    /\ delivered = << >>
    /\ ret = Undefined
    /\ fault = NoFault

\* failFast is off unless the caller asks for it
Init == Constructed(FALSE)

\* Time passes.  The pool reads the clock only to stamp a new fallback and to
\* measure the age of the current one, so the clock runs while a fallback
\* exists and is back at the origin when none does (see Commit).
Tick ==
    /\ Running
    /\ mcp_conn_fallback_time # null
    /\ \E t \in TimePoints : t > now /\ now' = t
    /\ ret' = Undefined
    /\ delivered' = << >>
    /\ UNCHANGED <<poolVars, clientVars, ncloseCalls, fault>>

\* cueball: 'added'
onConnectionAdd(key) ==
    /\ Running
    /\ Len(mconns) < MaxConns
    /\ Commit(connAdd(Cur, key))
    /\ UNCHANGED ncloseCalls

\* cueball: 'removed'
onConnectionRemoved(key, destroyed) ==
    /\ Running
    /\ Commit(connRetire(Cur, key, destroyed))
    /\ UNCHANGED ncloseCalls

\* a call of connAlloc that leaves the number of allocations within the bound:
\* one that fails can be made at any time
AllocFits(key) == Len(connAlloc(Cur, key).allocs) <= MaxAllocs

PoolAlloc(key) ==
    /\ Running
    /\ IF mcp_avail # {} THEN key \in mcp_avail ELSE key = null
    /\ AllocFits(key)
    /\ Commit(connAlloc(Cur, key))
    /\ UNCHANGED ncloseCalls

PoolRelease(aconn) ==
    /\ Running
    /\ aconn \in 1..Len(allocs)
    /\ Commit(connRelease(Cur, aconn))
    /\ UNCHANGED ncloseCalls

PoolFallbackDisable ==
    /\ Running
    /\ mcp_fallback_enable
    /\ Commit(fallbackDisable(Cur))
    /\ UNCHANGED ncloseCalls

vars == <<now, mconns, allocs, mcp_conns, mcp_avail, mcp_fallback_enable,
          mcp_conn_fallback, mcp_conn_fallback_time, ctxs, nactive, ncontexts,
          activeContexts, closeState, nactiveAtClose, immediates, detached,
          ncloseCalls, ncloseFini, cueballState, resolverState, closeEmitted,
          failFast, timeConnected, timeCueballInitFailed, stateChangedListener,
          sawRunning, delivered, ret, fault>>

PoolNext ==
    \/ Tick
    \/ \E key \in Keys : onConnectionAdd(key)
    \/ \E key \in Keys, destroyed \in BOOLEAN :
          onConnectionRemoved(key, destroyed)
    \/ \E key \in Keys \cup {null} : PoolAlloc(key)
    \/ \E aconn \in 1..MaxAllocs : PoolRelease(aconn)
    \/ PoolFallbackDisable

SpecPool == Init /\ [][PoolNext]_vars

\* ----------------------------------------------------------- client steps
\* cueball's ConnectionSet emits 'added' with a key it has not used before;
\* the pool looks at a key only to tell it from other keys, so the n-th
\* connection is given the key n
CueballAdded(key) ==
    /\ Len(mconns) < MaxClientConns
    /\ key = Len(mconns) + 1
    /\ mcp_conns[key] = null
    /\ onConnectionAdd(key)

\* cueball's ConnectionSet emits 'removed' for a connection it added and has
\* not removed yet
CueballRemoved(key, destroyed) ==
    /\ key \in mcp_avail
    /\ onConnectionRemoved(key, destroyed)

\* a callback-style RPC method (getBucket, ...) is called, by a caller that
\* makes at most "max" requests in the life of the client
CallbackRpcWithin(key, max) ==
    /\ Running
    /\ IF mcp_avail # {} THEN key \in mcp_avail ELSE key = null
    /\ Len(allocs) < max
    /\ LET S == getBucket(Cur, key) IN
       Len(S.immediates) <= MaxImmediates /\ Commit(S)
    /\ UNCHANGED ncloseCalls

CallbackRpc(key) == CallbackRpcWithin(key, MaxAllocs)

\* a streaming RPC method (listBuckets, listObjects) is called
EmitterRpcWithin(key, method, max) ==
    /\ Running
    /\ IF mcp_avail # {} THEN key \in mcp_avail ELSE key = null
    /\ Len(allocs) < max
    /\ LET S == listStream(Cur, key, method) IN
       Len(S.immediates) <= MaxImmediates /\ Commit(S)
    /\ UNCHANGED ncloseCalls

EmitterRpc(key, method) == EmitterRpcWithin(key, method, MaxAllocs)

\* The Fast request made with a context ends, with 'end' (err is "none") or
\* with 'error'; "handled" tells whether the caller has put a listener for
\* 'error' on the emitter a streaming method gave it (it is TRUE where no
\* 'error' is emitted).
RpcComplete(rpcctx, err, handled) ==
    /\ Running
    /\ rpcctx \in 1..Len(ctxs)
    /\ ~ctxs[rpcctx].completed
    /\ (ctxs[rpcctx].kind = "callback" \/ err = "none") => handled
    /\ LET S == [Cur EXCEPT !.ctxs[rpcctx].completed = TRUE] IN
       IF ctxs[rpcctx].kind = "callback"
       THEN Commit(onCallbackRpcComplete(S, rpcctx, err))
       ELSE Commit(onStreamRpcComplete(S, rpcctx, err, handled))
    /\ UNCHANGED ncloseCalls

\* close() is called
Close ==
    /\ Running
    /\ ncloseCalls' = IF ncloseCalls < 2 THEN ncloseCalls + 1 ELSE 2
    /\ Commit(close(Cur))

\* The event loop runs the first callback queued by setImmediate: closeFini,
\* the caller's callback with the error, or the emit of 'error' on the emitter
\* emitUnavailable() returned.
RunImmediate(handled) ==
    /\ Running
    /\ immediates # << >>
    /\ Head(immediates).fn # "emitUnavailable" => handled
    /\ LET S == [Cur EXCEPT !.immediates = Tail(@)]
           im == Head(immediates)
       IN  IF im.fn = "closeImmediate"
           THEN Commit(closeFini(S))
           ELSE IF im.fn = "callback"
           THEN Commit(Deliver(S, "callback", null, im.arg))
           ELSE Commit(emitError(S, null, im.arg, handled))
    /\ UNCHANGED ncloseCalls

\* the ConnectionSet, asked to stop, reaches 'stopped' and emits 'stateChanged'
CueballStopped ==
    /\ Running
    /\ cueballState = "stopping"
    /\ LET S0 == [Cur EXCEPT !.cueballState = "stopped"]
           S == IF S0.stateChangedListener
                THEN onCueballStateChange(S0, "stopped", TRUE)
                ELSE S0
       IN  IF S.ncloseFini > 0 /\ S.fault = NoFault
           THEN Commit(onStateChangedAfterClose(S, "stopped"))
           ELSE Commit(S)
    /\ UNCHANGED ncloseCalls

\* the resolver, asked to stop, reaches 'stopped'
ResolverStopped ==
    /\ Running
    /\ resolverState = "stopping"
    /\ Commit([Cur EXCEPT !.resolverState = "stopped"])
    /\ UNCHANGED ncloseCalls

Next ==
    \/ Tick
    \/ \E key \in Keys : CueballAdded(key)
    \/ \E key \in Keys, destroyed \in BOOLEAN :
          CueballRemoved(key, destroyed)
    \/ \E key \in Keys \cup {null} : CallbackRpc(key)
    \/ \E key \in Keys \cup {null}, method \in StreamMethods :
          EmitterRpc(key, method)
    \/ \E rpcctx \in 1..MaxAllocs, err \in {"none", "error"},
          handled \in BOOLEAN : RpcComplete(rpcctx, err, handled)
    \/ Close
    \/ \E handled \in BOOLEAN : RunImmediate(handled)
    \/ CueballStopped
    \/ ResolverStopped

Spec == Init /\ [][Next]_vars

\* The ConnectionSet, not yet asked to stop, changes state between 'starting',
\* 'running' and 'failed' and emits 'stateChanged'; the listeners on it run.
CueballStateChanged(st, handled) ==
    /\ Running
    /\ cueballState \in {"starting", "running", "failed"}
    /\ st \in {"running", "failed"} \ {cueballState}
    /\ LET S0 == [Cur EXCEPT !.cueballState = st,
                             !.sawRunning = @ \/ st = "running"]
           calls == S0.stateChangedListener
           S == IF calls THEN onCueballStateChange(S0, st, handled) ELSE S0
           closes == calls /\ S0.failFast /\ st = "failed" /\ S.fault = NoFault
       IN  /\ ~(calls /\ S0.failFast /\ st = "failed") => handled
           /\ Commit(S)
           /\ ncloseCalls' = IF closes /\ ncloseCalls < 2
                             THEN ncloseCalls + 1 ELSE ncloseCalls

\* the client from its construction to its close, with either failFast
ConnectInit == \E options_failFast \in BOOLEAN : Constructed(options_failFast)

ConnectNext ==
    \/ \E st \in {"running", "failed"}, handled \in BOOLEAN :
          CueballStateChanged(st, handled)
    \/ \E key \in Keys : CueballAdded(key)
    \/ \E key \in Keys, destroyed \in BOOLEAN :
          CueballRemoved(key, destroyed)
    \/ \E key \in Keys \cup {null} : CallbackRpc(key)
    \/ \E rpcctx \in 1..MaxAllocs, err \in {"none", "error"} :
          RpcComplete(rpcctx, err, TRUE)
    \/ Close
    \/ \E handled \in BOOLEAN : RunImmediate(handled)
    \/ CueballStopped
    \/ ResolverStopped

SpecConnect == ConnectInit /\ [][ConnectNext]_vars

CallbackMethods == {"getBucket", "getPlacementData"}

\* getBucket or getPlacementData is called
CallbackMethodCalled(key, method) ==
    /\ Running
    /\ IF mcp_avail # {} THEN key \in mcp_avail ELSE key = null
    /\ Len(allocs) < MaxAllocs
    /\ LET S == callbackMethod(Cur, key, method) IN
       Len(S.immediates) <= MaxImmediates /\ Commit(S)
    /\ UNCHANGED ncloseCalls

\* The Fast request of a callback method emits 'data'.  A message is
\* identified by its place in the response: 1 for the first, 2 for the next.
FastData(rpcctx, obj) ==
    /\ Running
    /\ rpcctx \in 1..Len(ctxs)
    /\ ctxs[rpcctx].kind = "callback"
    /\ ~ctxs[rpcctx].completed
    /\ Len(ctxs[rpcctx].data) < MaxData
    /\ obj = Len(ctxs[rpcctx].data) + 1
    /\ Commit(onData(Cur, rpcctx, obj))
    /\ UNCHANGED ncloseCalls

\* the Fast request of a callback method emits 'end' or 'error', once; a
\* readable stream emits 'end' when all it received has been read
FastDone(rpcctx, err) ==
    /\ Running
    /\ rpcctx \in 1..Len(ctxs)
    /\ ctxs[rpcctx].kind = "callback"
    /\ ~ctxs[rpcctx].completed
    /\ err = "none" => ctxs[rpcctx].nread = Len(ctxs[rpcctx].msgs)
    /\ Commit(onRequestDone([Cur EXCEPT !.ctxs[rpcctx].completed = TRUE],
                            rpcctx, err))
    /\ UNCHANGED ncloseCalls

\* the callback methods of a client, with the messages of their requests
RpcNext ==
    \/ \E key \in Keys : CueballAdded(key)
    \/ \E key \in Keys \cup {null}, method \in CallbackMethods :
          CallbackMethodCalled(key, method)
    \/ \E rpcctx \in 1..MaxAllocs, obj \in 1..MaxData : FastData(rpcctx, obj)
    \/ \E rpcctx \in 1..MaxAllocs, err \in {"none", "error"} :
          FastDone(rpcctx, err)
    \/ Close
    \/ RunImmediate(TRUE)

SpecRpc == Init /\ [][RpcNext]_vars

\* the messages the requests made with wrapErrors have received
RECURSIVE NumReceived(_)
NumReceived(cs) ==
    IF cs = << >> THEN 0 ELSE Len(Head(cs).msgs) + NumReceived(Tail(cs))

\* the Fast request of a method of WrapMethods receives a message, which
\* waits in the request until the 'readable' listener reads it
FastMessage(rpcctx, error) ==
    /\ Running
    /\ rpcctx \in 1..Len(ctxs)
    /\ ctxs[rpcctx].method \in WrapMethods
    /\ ~ctxs[rpcctx].completed
    /\ NumReceived(ctxs) < MaxMsgs
    /\ Commit([Cur EXCEPT !.ctxs[rpcctx].msgs = Append(@, error)])
    /\ UNCHANGED ncloseCalls

\* the Fast request emits 'readable'
Readable(rpcctx) ==
    /\ Running
    /\ rpcctx \in 1..Len(ctxs)
    /\ ctxs[rpcctx].method \in WrapMethods
    /\ ~ctxs[rpcctx].completed
    /\ ctxs[rpcctx].nread < Len(ctxs[rpcctx].msgs)
    /\ Commit(onReadable(Cur, rpcctx))
    /\ UNCHANGED ncloseCalls

\* the methods that make their request with wrapErrors, called while a
\* connection is available, with the messages of their requests
WrapNext ==
    \/ \E key \in Keys : CueballAdded(key)
    \/ \E key \in Keys, method \in WrapMethods :
          CallbackMethodCalled(key, method)
    \/ \E rpcctx \in 1..MaxAllocs, error \in MsgErrors :
          FastMessage(rpcctx, error)
    \/ \E rpcctx \in 1..MaxAllocs : Readable(rpcctx)
    \/ \E rpcctx \in 1..MaxAllocs, err \in {"none", "error"} :
          FastDone(rpcctx, err)

SpecWrap == Init /\ [][WrapNext]_vars

\* the "connected" property of the client
connected_IgnoreClose == timeConnected # null

connected == timeConnected # null /\ closeState = BORAY_CS_OPEN

\* The client with its connections in service throughout: no connection is
\* removed and the ConnectionSet and the resolver are left to themselves,
\* while the callers make up to MaxContexts requests.
ContextsNext ==
    \/ \E key \in Keys : CueballAdded(key)
    \/ \E key \in Keys \cup {null} : CallbackRpcWithin(key, MaxContexts)
    \/ \E key \in Keys \cup {null}, method \in StreamMethods :
          EmitterRpcWithin(key, method, MaxContexts)
    \/ \E rpcctx \in 1..MaxContexts, err \in {"none", "error"},
          handled \in BOOLEAN : RpcComplete(rpcctx, err, handled)
    \/ Close
    \/ \E handled \in BOOLEAN : RunImmediate(handled)

SpecContexts == Init /\ [][ContextsNext]_vars

\* The function makeReleaseCb returned for a context is called a second time,
\* after the call that released the context.
CallbackAgain(rpcctx, err) ==
    /\ Running
    /\ rpcctx \in 1..Len(ctxs)
    /\ ctxs[rpcctx].kind = "callback"
    /\ ctxs[rpcctx].completed
    /\ Commit(onCallbackRpcComplete(Cur, rpcctx, err))
    /\ UNCHANGED ncloseCalls

\* a client whose contexts may be released twice
MisuseNext ==
    \/ ContextsNext
    \/ \E rpcctx \in 1..MaxContexts, err \in {"none", "error"} :
          CallbackAgain(rpcctx, err)

SpecMisuse == Init /\ [][MisuseNext]_vars

\* ============================================================= properties
Recs == 1..Len(mconns)
Allocs == 1..Len(allocs)

StateOf(m) == mconns[m].mc_state
HistStates(m) == [i \in 1..Len(mconns[m].mc_hist) |-> mconns[m].mc_hist[i].st]
HasEntered(m, st) == \E i \in 1..Len(mconns[m].mc_hist) : mconns[m].mc_hist[i].st = st

\* the states a record passes through in one step, after the one it was in
NewHist(m) == SubSeq(mconns'[m].mc_hist, Len(mconns[m].mc_hist) + 1,
                     Len(mconns'[m].mc_hist))

PoolObjectUnchanged ==
    UNCHANGED <<mconns, mcp_conns, mcp_avail, mcp_fallback_enable,
                mcp_conn_fallback, mcp_conn_fallback_time>>

\* elapsed time since the fallback was stamped, in ticks
FallbackAge == now - mcp_conn_fallback_time

\* ---------------------------------------------------------------------- C1
\* C1: in every reachable pool state, whatever sequence of connAdd,
\* connRetire, connAlloc, connRelease and fallbackDisable led to it, at most
\* one BorayConnection is in state MC_S_FALLBACK.
C1_AtMostOneFallback ==
    Cardinality({ m \in Recs : StateOf(m) = MC_S_FALLBACK }) <= 1

\* a second connection has become the fallback after an earlier one was
C1_Witness ==
    \E m1, m2 \in Recs :
        /\ m1 # m2
        /\ HasEntered(m1, MC_S_FALLBACK)
        /\ StateOf(m1) # MC_S_FALLBACK
        /\ StateOf(m2) = MC_S_FALLBACK

\* ---------------------------------------------------------------------- C2
\* C2: a record is DELETED if and only if it has entered DRAINING and its
\* outstanding count is zero; mc_hdl.release() has been called once for a
\* DELETED record and never for any other, and the state a record was in
\* right before DELETED is DRAINING.
C2_DeletedIffDrainedIdle ==
    \A m \in Recs :
        /\ (StateOf(m) = MC_S_DELETED) <=>
              (HasEntered(m, MC_S_DRAIN) /\ mconns[m].mc_nreqs = 0)
        /\ mconns[m].hdl_nrelease = (IF StateOf(m) = MC_S_DELETED THEN 1 ELSE 0)
        /\ StateOf(m) = MC_S_DELETED =>
              LET h == mconns[m].mc_hist IN
              /\ Len(h) >= 3
              /\ h[Len(h)].st = MC_S_DELETED
              /\ h[Len(h) - 1].st = MC_S_DRAIN
              /\ \A i \in 1..(Len(h) - 1) : h[i].st # MC_S_DELETED

\* a record that was used, drained with a request outstanding and deleted by
\* the release of that request
C2_Witness ==
    \E m \in Recs :
        /\ StateOf(m) = MC_S_DELETED
        /\ mconns[m].hdl_nrelease = 1
        /\ \E i \in 1..Len(mconns[m].mc_hist) :
              /\ mconns[m].mc_hist[i].st = MC_S_DRAIN
              /\ mconns[m].mc_hist[i].nreqs > 0

C4_AsStated ==
    [][ \A key \in Keys \cup {null} :
          (PoolAlloc(key) /\ mcp_avail = {} /\ mcp_conn_fallback # null) =>
             IF FallbackAge < BorayFallbackMaxTime * TicksPerMs
             THEN /\ ret'.err = "none"
                  /\ ret'.val = Len(allocs) + 1
                  /\ allocs'[ret'.val].mca_mconn = mcp_conn_fallback
             ELSE ret'.err = "NoBackendsError" ]_vars

\* C4 amended: with no connection available and the fallback in place,
\* connAlloc returns an allocation of the fallback when less than 15001 ms
\* have passed since the removal (the age in whole milliseconds is at most
\* 15000), and the no-backends error when 15001 ms or more have passed.
C4_FallbackUsableThroughBound ==
    [][ \A key \in Keys \cup {null} :
          (PoolAlloc(key) /\ mcp_avail = {} /\ mcp_conn_fallback # null) =>
             IF FallbackAge < (BorayFallbackMaxTime + 1) * TicksPerMs
             THEN /\ fault' = NoFault
                  /\ ret'.err = "none"
                  /\ ret'.val = Len(allocs) + 1
                  /\ allocs'[ret'.val].mca_mconn = mcp_conn_fallback
                  /\ mcp_conn_fallback' = mcp_conn_fallback
             ELSE /\ fault' = NoFault
                  /\ ret'.err = "NoBackendsError"
                  /\ allocs' = allocs ]_vars

\* an allocation made from the fallback 15000 ms or more after the removal
C4_Witness ==
    /\ ret.err = "none"
    /\ ret.val \in Allocs
    /\ mcp_conn_fallback # null
    /\ allocs[ret.val].mca_mconn = mcp_conn_fallback
    /\ FallbackAge >= BorayFallbackMaxTime * TicksPerMs

\* ---------------------------------------------------------------------- C5
\* C5: a connAdd that runs while a fallback exists, whatever the fallback's
\* age, takes the fallback out of FALLBACK in the same step: it is DRAINING
\* if it has outstanding requests and DELETED if it has none, the fallback
\* slot and time are cleared; and the release of the last outstanding request
\* of a DRAINING record deletes it.
C5_AddDrainsFallback ==
    [][ /\ \A key \in Keys :
             (onConnectionAdd(key) /\ mcp_conn_fallback # null
                 /\ mcp_conns[key] = null) =>
                LET fb == mcp_conn_fallback IN
                /\ fault' = NoFault
                /\ mcp_conn_fallback' = null
                /\ mcp_conn_fallback_time' = null
                /\ IF mconns[fb].mc_nreqs = 0
                   THEN /\ mconns'[fb].mc_state = MC_S_DELETED
                        /\ mcp_conns'[mconns[fb].mc_key] = null
                        /\ mconns'[fb].hdl_nrelease = 1
                   ELSE /\ mconns'[fb].mc_state = MC_S_DRAIN
                        /\ mcp_conns'[mconns[fb].mc_key] = fb
                        /\ mconns'[fb].mc_nreqs = mconns[fb].mc_nreqs
        /\ \A aconn \in 1..MaxAllocs :
             (PoolRelease(aconn) /\ ~allocs[aconn].mca_released
                 /\ StateOf(allocs[aconn].mca_mconn) = MC_S_DRAIN
                 /\ mconns[allocs[aconn].mca_mconn].mc_nreqs = 1) =>
                /\ fault' = NoFault
                /\ mconns'[allocs[aconn].mca_mconn].mc_state = MC_S_DELETED
      ]_vars

\* a fallback with an outstanding request was drained by a connAdd (the
\* fallback mechanism is enabled) and deleted by the release
C5_Witness ==
    /\ mcp_fallback_enable
    /\ \E m \in Recs :
          /\ StateOf(m) = MC_S_DELETED
          /\ Len(mconns[m].mc_hist) = 4
          /\ mconns[m].mc_hist[2].st = MC_S_FALLBACK
          /\ mconns[m].mc_hist[3].st = MC_S_DRAIN
          /\ mconns[m].mc_hist[3].nreqs > 0

\* ---------------------------------------------------------------------- C6
\* C6: connRetire(key) on an AVAILABLE record makes it the FALLBACK exactly
\* when mcp_avail without key is empty, the fallback mechanism is enabled and
\* the transport is not destroyed; otherwise the record enters DRAINING.  In
\* both cases key is not in mcp_avail afterwards.
C6_RetireFallbackOrDrain ==
    [][ \A key \in Keys, destroyed \in BOOLEAN :
          (onConnectionRemoved(key, destroyed) /\ key \in mcp_avail
              /\ mcp_conns[key] # null
              /\ StateOf(mcp_conns[key]) = MC_S_AVAIL) =>
             LET m == mcp_conns[key] IN
             /\ fault' = NoFault
             /\ key \notin mcp_avail'
             /\ IF mcp_avail \ {key} = {} /\ mcp_fallback_enable /\ ~destroyed
                THEN /\ mconns'[m].mc_state = MC_S_FALLBACK
                     /\ Len(NewHist(m)) = 1
                     /\ mcp_conn_fallback' = m
                ELSE /\ NewHist(m)[1].st = MC_S_DRAIN
                     /\ mconns'[m].mc_state \in {MC_S_DRAIN, MC_S_DELETED}
                     /\ mcp_conn_fallback' = mcp_conn_fallback ]_vars

\* one record was retired into FALLBACK, another one straight into DRAINING
C6_Witness ==
    \E m1, m2 \in Recs :
        /\ StateOf(m1) = MC_S_FALLBACK
        /\ Len(mconns[m2].mc_hist) >= 2
        /\ mconns[m2].mc_hist[2].st = MC_S_DRAIN

\* ---------------------------------------------------------------------- C7
\* C7: between operations no record is DRAINING with an outstanding count of
\* zero; a record that enters DRAINING with no outstanding request is DELETED
\* in the same operation, and otherwise the connRelease that brings its count
\* to zero deletes it.
C7_NoIdleDraining ==
    /\ [](\A m \in Recs : StateOf(m) = MC_S_DRAIN =>
              /\ mconns[m].mc_nreqs > 0
              /\ mcp_conns[mconns[m].mc_key] = m)
    /\ [][ /\ \A m \in Recs :
                (Len(NewHist(m)) > 0 /\ NewHist(m)[1].st = MC_S_DRAIN
                    /\ NewHist(m)[1].nreqs = 0) =>
                   mconns'[m].mc_state = MC_S_DELETED
           /\ \A aconn \in 1..MaxAllocs :
                (PoolRelease(aconn) /\ fault' = NoFault
                    /\ StateOf(allocs[aconn].mca_mconn) = MC_S_DRAIN) =>
                   LET m == allocs[aconn].mca_mconn IN
                   IF mconns[m].mc_nreqs = 1
                   THEN /\ mconns'[m].mc_state = MC_S_DELETED
                        /\ mcp_conns'[mconns[m].mc_key] = null
                   ELSE mconns'[m].mc_state = MC_S_DRAIN ]_vars

\* one record was deleted on entering DRAINING, another one by the release of
\* its last request
C7_Witness ==
    \E m1, m2 \in Recs :
        /\ StateOf(m1) = MC_S_DELETED
        /\ mconns[m1].mc_hist[Len(mconns[m1].mc_hist) - 1].nreqs = 0
        /\ StateOf(m2) = MC_S_DELETED
        /\ mconns[m2].mc_hist[Len(mconns[m2].mc_hist) - 1].nreqs > 0

\* ---------------------------------------------------------------------- C8
\* C8: a record's state changes only along AVAILABLE->FALLBACK,
\* AVAILABLE->DRAINING, FALLBACK->DRAINING and DRAINING->DELETED; a record
\* that has left AVAILABLE is never AVAILABLE again and its key is never in
\* mcp_avail again on its account.
Arrows ==
    { <<MC_S_AVAIL, MC_S_FALLBACK>>, <<MC_S_AVAIL, MC_S_DRAIN>>,
      <<MC_S_FALLBACK, MC_S_DRAIN>>, <<MC_S_DRAIN, MC_S_DELETED>> }

C8_NoReturnToAvailable ==
    /\ [](\A m \in Recs :
            LET h == HistStates(m) IN
            /\ h[1] = MC_S_AVAIL
            /\ h[Len(h)] = StateOf(m)
            /\ \A i \in 1..(Len(h) - 1) : <<h[i], h[i + 1]>> \in Arrows)
    /\ [][ \A m \in Recs :
             /\ m \in 1..Len(mconns')
             /\ SubSeq(mconns'[m].mc_hist, 1, Len(mconns[m].mc_hist))
                   = mconns[m].mc_hist
             /\ mconns'[m].mc_key = mconns[m].mc_key
             /\ StateOf(m) # MC_S_AVAIL =>
                   /\ mconns'[m].mc_state # MC_S_AVAIL
                   /\ ~(mconns[m].mc_key \in mcp_avail'
                          /\ mcp_conns'[mconns[m].mc_key] = m) ]_vars

\* a record went AVAILABLE, FALLBACK, DRAINING, DELETED and its key is in
\* service again through a new record
C8_Witness ==
    \E m1, m2 \in Recs :
        /\ m1 # m2
        /\ mconns[m1].mc_key = mconns[m2].mc_key
        /\ HistStates(m1) =
              <<MC_S_AVAIL, MC_S_FALLBACK, MC_S_DRAIN, MC_S_DELETED>>
        /\ StateOf(m2) = MC_S_AVAIL
        /\ mconns[m2].mc_key \in mcp_avail


\* ---------------------------------------------------------------------- C9
\* C9: closeFini runs only when closeState is closing, nactive is 0 and
\* activeContexts is empty (none of its assertions ever fails); after a
\* close() made with N > 0 outstanding requests it has not run as long as one
\* of the N contexts is unreleased.
ActiveIds == { i \in CtxIds : activeContexts[i] # null }

C10_CloseIdempotent ==
    /\ [](ncloseFini <= 1)
    /\ [][ (Close /\ closeState # BORAY_CS_OPEN) =>
              /\ fault' = NoFault
              /\ UNCHANGED <<now, poolVars, clientVars>> ]_vars

\* close() was called twice and closeFini has run once
C10_Witness ==
    /\ ncloseCalls = 2
    /\ ncloseFini = 1
    /\ fault = NoFault

\* --------------------------------------------------------------------- C11
\* the contexts the streaming methods have created
StreamCtxs == { r \in 1..Len(ctxs) : ctxs[r].kind = "emitter" }

\* C11: once the RPC of a streaming method's context has completed, with
\* 'end' or with 'error', the listener of releaseWhenDone has run for it and
\* the context is released: it is no longer in activeContexts and its
\* allocation is back with the pool.  (A double release would fail the
\* assertion of the listener.)
C11_StreamContextReleased ==
    /\ fault # "releaseWhenDone: done twice"
    /\ \A r \in StreamCtxs :
          (ctxs[r].completed /\ fault = NoFault) =>
              /\ ctxs[r].done
              /\ activeContexts[ctxs[r].mc_id] # r
              /\ allocs[ctxs[r].mc_conn].mca_released

\* --------------------------------------------------------------------- C12
\* C12: when the RPC of a callback-style method completes, the caller's
\* callback starts with the context already released: the context is not in
\* activeContexts, its allocation is released, and nactive and the mc_nreqs of
\* its connection are one less than before the completion.  Nothing else has
\* run since the release: the values the callback finds are those the release
\* left.  The callback runs once.
C12_ReleaseBeforeCallback ==
    /\ [](\A i \in 1..Len(delivered) :
            (delivered[i].ev = "callback" /\ delivered[i].ctx # null) =>
                ~delivered[i].active /\ delivered[i].released)
    /\ [][ \A r \in 1..Len(ctxs) :
              (/\ ctxs[r].kind = "callback"
               /\ ~ctxs[r].completed
               /\ ctxs'[r].completed
               /\ fault' = NoFault) =>
                  LET mconn == allocs[ctxs[r].mc_conn].mca_mconn IN
                  /\ Len(delivered') = 1
                  /\ delivered'[1].ev = "callback"
                  /\ delivered'[1].ctx = r
                  /\ delivered'[1].nactive = nactive - 1
                  /\ delivered'[1].nreqs = mconns[mconn].mc_nreqs - 1
                  /\ delivered'[1].nactive = nactive'
                  /\ delivered'[1].nreqs = mconns'[mconn].mc_nreqs ]_vars

\* a callback was run for the request whose release, after close(), ran
\* closeFini
C12_Witness ==
    /\ \E i \in 1..Len(delivered) :
          delivered[i].ev = "callback" /\ delivered[i].ctx # null
    /\ closeState = BORAY_CS_CLOSING
    /\ ncloseFini = 1

\* --------------------------------------------------------------------- C13
\* C13: when 'end' or 'error' is delivered to the caller's listeners on the
\* emitter a streaming method returned, the context of the RPC has been
\* released: it is not in activeContexts and its allocation is back with the
\* pool.
C13_ReleaseBeforeEnd ==
    \A i \in 1..Len(delivered) :
        (delivered[i].ev \in {"end", "error"} /\ delivered[i].ctx # null) =>
            ~delivered[i].active /\ delivered[i].released

\* --------------------------------------------------------------------- C14
\* C14: a call of a callback-style method that gets no connection (the client
\* is closed, or connAlloc returned an error) returns null and creates no
\* context: nactive, ncontexts, activeContexts and the allocations are
\* unchanged.  No callback runs within the call; one call of the callback
\* with the error is queued, and the later event-loop turn that takes it from
\* the queue runs the callback once with that error.
C14_FailureCallbackIsAsync ==
    /\ [][ \A key \in Keys \cup {null} :
              (fault' = NoFault /\ ret'.val = null /\ CallbackRpc(key)) =>
                  /\ UNCHANGED <<nactive, ncontexts, activeContexts, ctxs,
                                 allocs>>
                  /\ delivered' = << >>
                  /\ Len(immediates') = Len(immediates) + 1
                  /\ SubSeq(immediates', 1, Len(immediates)) = immediates
                  /\ immediates'[Len(immediates')].fn = "callback"
                  /\ immediates'[Len(immediates')].arg =
                        IF closeState # BORAY_CS_OPEN
                        THEN "boray client has been closed"
                        ELSE "NoBackendsError" ]_vars
    /\ [][ (immediates # << >> /\ immediates' = Tail(immediates)
              /\ Head(immediates).fn = "callback" /\ fault' = NoFault) =>
                  /\ Len(delivered') = 1
                  /\ delivered'[1].ev = "callback"
                  /\ delivered'[1].ctx = null
                  /\ delivered'[1].arg = Head(immediates).arg ]_vars
    /\ [][ \A i \in 1..Len(delivered') :
              (delivered'[i].ev = "callback" /\ delivered'[i].ctx = null) =>
                  /\ immediates # << >>
                  /\ Head(immediates).fn = "callback"
                  /\ immediates' = Tail(immediates) ]_vars

\* the callback has just been run with the error of a pool that had no
\* connection to give
C14_Witness ==
    /\ Len(delivered) = 1
    /\ delivered[1].ev = "callback"
    /\ delivered[1].ctx = null
    /\ delivered[1].arg = "NoBackendsError"
    /\ closeState = BORAY_CS_OPEN

\* --------------------------------------------------------------------- C15
\* C15: once closeState has left "open", no context and no allocation is
\* created and no connection's mc_nreqs increases.  A method called then
\* fails as for a closed client and leaves the pool as it was, whatever
\* connections are available: a callback-style method queues its callback
\* with 'boray client has been closed', a streaming method returns the
\* emitter of emitUnavailable(); neither fails an assertion.
C15_NoAllocationAfterClose ==
    /\ [][ closeState # BORAY_CS_OPEN =>
              /\ closeState' # BORAY_CS_OPEN
              /\ Len(ctxs') = Len(ctxs)
              /\ Len(allocs') = Len(allocs)
              /\ ncontexts' = ncontexts
              /\ nactive' <= nactive
              /\ \A m \in 1..Len(mconns) :
                    mconns'[m].mc_nreqs <= mconns[m].mc_nreqs ]_vars
    /\ [][ \A key \in Keys \cup {null} :
              (closeState # BORAY_CS_OPEN /\ CallbackRpc(key)) =>
                  /\ fault' = NoFault
                  /\ ret' = RetValue(null)
                  /\ UNCHANGED poolVars
                  /\ immediates' =
                        Append(immediates,
                               [fn |-> "callback",
                                arg |-> "boray client has been closed"]) ]_vars
    /\ [][ \A key \in Keys \cup {null}, method \in StreamMethods :
              (closeState # BORAY_CS_OPEN /\ EmitterRpc(key, method)) =>
                  /\ fault' = NoFault
                  /\ UNCHANGED poolVars
                  /\ immediates' =
                        Append(immediates,
                               [fn |-> "emitUnavailable",
                                arg |-> "no active connections"]) ]_vars

\* a connection is still available after close(), and a callback-style method
\* called since has its callback queued with the error of a closed client
C15_Witness ==
    /\ closeState = BORAY_CS_CLOSING
    /\ mcp_avail # {}
    /\ \E i \in 1..Len(immediates) :
          immediates[i] = [fn |-> "callback",
                           arg |-> "boray client has been closed"]

\* --------------------------------------------------------------------- C16
\* C16: close() called with requests outstanding detaches the transport of
\* every active context, and when the RPC of every context has then ended
\* (nothing thrown), every context has been released and closeFini has run:
\* nactive is 0, activeContexts is empty, every allocation is back with the
\* pool.  A release runs within the completion of its RPC and closeFini
\* within the last release, so this is stated of every state in which no RPC
\* is left to complete.
C16_CloseDrainsActiveContexts ==
    (closeState = BORAY_CS_CLOSING /\ nactiveAtClose > 0 /\ fault = NoFault) =>
        /\ \A r \in 1..Len(ctxs) :
              activeContexts[ctxs[r].mc_id] = r =>
                  allocs[ctxs[r].mc_conn].mca_mconn \in detached
        /\ (\A r \in 1..Len(ctxs) : ctxs[r].completed) =>
              /\ nactive = 0
              /\ ActiveIds = {}
              /\ \A a \in Allocs : allocs[a].mca_released
              /\ ncloseFini = 1

\* --------------------------------------------------------------------- C17
\* C17: when the client has emitted 'close', closeFini has run and both the
\* ConnectionSet and the resolver are in their stopped state.
C17_CloseAfterSetAndResolverStopped ==
    closeEmitted > 0 =>
        /\ ncloseFini > 0
        /\ cueballState = "stopped"
        /\ resolverState = "stopped"

\* --------------------------------------------------------------------- C18
\* closeImmediate is waiting in the queue of setImmediate
ClosePending == \E i \in 1..Len(immediates) : immediates[i].fn = "closeImmediate"

C19_FallbackDisableIsPermanent ==
    /\ [][ PoolFallbackDisable =>
              /\ fault' = NoFault
              /\ ~mcp_fallback_enable'
              /\ mcp_conn_fallback # null =>
                    LET m == mcp_conn_fallback IN
                    /\ NewHist(m)[1].st = MC_S_DRAIN
                    /\ mconns'[m].mc_state =
                          IF mconns[m].mc_nreqs = 0
                          THEN MC_S_DELETED
                          ELSE MC_S_DRAIN ]_vars
    /\ [][ ~mcp_fallback_enable => ~mcp_fallback_enable' ]_vars
    /\ [](~mcp_fallback_enable =>
            /\ mcp_conn_fallback = null
            /\ mcp_conn_fallback_time = null
            /\ \A m \in Recs : StateOf(m) # MC_S_FALLBACK)
    /\ [][ \A key \in Keys, destroyed \in BOOLEAN :
              (onConnectionRemoved(key, destroyed) /\ ~mcp_fallback_enable
                  /\ mcp_conns[key] # null
                  /\ StateOf(mcp_conns[key]) = MC_S_AVAIL) =>
                 LET m == mcp_conns[key] IN
                 /\ fault' = NoFault
                 /\ NewHist(m)[1].st = MC_S_DRAIN
                 /\ mconns'[m].mc_state =
                       IF mconns[m].mc_nreqs = 0
                       THEN MC_S_DELETED
                       ELSE MC_S_DRAIN ]_vars

\* the mechanism is disabled, a record that was the fallback has been
\* drained, and the last available record, retired with a request
\* outstanding, is DRAINING without having been the fallback
C19_Witness ==
    /\ ~mcp_fallback_enable
    /\ mcp_avail = {}
    /\ \E m1, m2 \in Recs :
          /\ m1 < m2
          /\ HasEntered(m1, MC_S_FALLBACK)
          /\ StateOf(m2) = MC_S_DRAIN
          /\ ~HasEntered(m2, MC_S_FALLBACK)

\* --------------------------------------------------------------------- C20
\* C20: connAlloc called when mcp_avail is empty and the age of the fallback,
\* in the whole milliseconds connAlloc measures it in, exceeds
\* BorayFallbackMaxTime returns the no-backends error and makes no
\* allocation; mcp_conn_fallback and mcp_conn_fallback_time are null
\* afterwards and the former fallback is DRAINING, or DELETED when it had no
\* request outstanding, with mc_nreqs as before.  A record that is neither
\* AVAILABLE nor the FALLBACK is never handed out again: it stays out of
\* those states and its mc_nreqs never increases.
C20_StaleFallbackEvicted ==
    /\ [][ \A key \in Keys \cup {null} :
              (/\ PoolAlloc(key)
               /\ mcp_avail = {}
               /\ mcp_conn_fallback # null
               /\ hrtimeMillisec(FallbackAge) > BorayFallbackMaxTime) =>
                  LET m == mcp_conn_fallback IN
                  /\ fault' = NoFault
                  /\ ret' = RetError("NoBackendsError")
                  /\ allocs' = allocs
                  /\ mcp_conn_fallback' = null
                  /\ mcp_conn_fallback_time' = null
                  /\ NewHist(m)[1].st = MC_S_DRAIN
                  /\ mconns'[m].mc_state =
                        IF mconns[m].mc_nreqs = 0
                        THEN MC_S_DELETED
                        ELSE MC_S_DRAIN
                  /\ mconns'[m].mc_nreqs = mconns[m].mc_nreqs ]_vars
    /\ [][ \A m \in Recs :
              StateOf(m) \notin {MC_S_AVAIL, MC_S_FALLBACK} =>
                  /\ mconns'[m].mc_state \notin {MC_S_AVAIL, MC_S_FALLBACK}
                  /\ mconns'[m].mc_nreqs <= mconns[m].mc_nreqs ]_vars

\* connAlloc has just reported no backends and evicted the only record there
\* ever was, a fallback with a request outstanding
C20_Witness ==
    /\ ret = RetError("NoBackendsError")
    /\ mcp_fallback_enable
    /\ mcp_conn_fallback = null
    /\ Len(mconns) = 1
    /\ HasEntered(1, MC_S_FALLBACK)
    /\ StateOf(1) = MC_S_DRAIN

\* --------------------------------------------------------------------- C21
\* C21: connAlloc called while mcp_avail is not empty returns an allocation
\* of a record whose key is in mcp_avail and whose state is AVAILABLE.  Every
\* connAlloc that returns an allocation adds one to the mc_nreqs of the
\* record it chose and changes nothing else of the pool: no other record, no
\* state, not mcp_conns, mcp_avail, mcp_fallback_enable, mcp_conn_fallback or
\* mcp_conn_fallback_time.
C21_AllocFrame ==
    /\ [][ \A key \in Keys \cup {null} :
              (mcp_avail # {} /\ PoolAlloc(key)) =>
                  /\ fault' = NoFault
                  /\ ret' = RetValue(Len(allocs) + 1)
                  /\ LET m == allocs'[ret'.val].mca_mconn IN
                     /\ mconns[m].mc_key \in mcp_avail
                     /\ mcp_conns[mconns[m].mc_key] = m
                     /\ StateOf(m) = MC_S_AVAIL ]_vars
    /\ [][ \A key \in Keys \cup {null} :
              (ret'.err = "none" /\ fault' = NoFault /\ PoolAlloc(key)) =>
                  /\ ret'.val = Len(allocs) + 1
                  /\ allocs' = Append(allocs,
                        BorayConnectionAllocation(allocs'[ret'.val].mca_mconn))
                  /\ LET m == allocs'[ret'.val].mca_mconn IN
                     /\ m \in Recs
                     /\ mconns' = [mconns EXCEPT ![m].mc_nreqs = @ + 1]
                  /\ UNCHANGED <<mcp_conns, mcp_avail, mcp_fallback_enable,
                                 mcp_conn_fallback, mcp_conn_fallback_time>>
          ]_vars

\* an allocation made from one of two available connections is outstanding
C21_Witness ==
    /\ ret.err = "none"
    /\ ret.val \in Allocs
    /\ ~allocs[ret.val].mca_released
    /\ Cardinality(mcp_avail) = 2
    /\ StateOf(allocs[ret.val].mca_mconn) = MC_S_AVAIL
    /\ mconns[allocs[ret.val].mca_mconn].mc_nreqs = 1

\* --------------------------------------------------------------------- C22
\* C22: connRelease of the allocation a connAlloc has just returned, made on
\* an AVAILABLE record or on the FALLBACK record, fails no assertion and
\* leaves the pool as it was before the connAlloc: every record with the
\* mc_nreqs and state it had, mcp_conns, mcp_avail, mcp_conn_fallback and
\* mcp_conn_fallback_time unchanged.  The release of an allocation whose
\* record is AVAILABLE or the FALLBACK takes one from its mc_nreqs and changes
\* nothing else of the pool.
C22_AllocReleaseRoundTrip ==
    /\ [][ \A key \in Keys \cup {null} :
              (ret'.err = "none" /\ fault' = NoFault /\ PoolAlloc(key)) =>
                  LET S2 == connRelease(Cur', ret'.val) IN
                  /\ S2.fault = NoFault
                  /\ S2.mconns = mconns
                  /\ S2.mcp_conns = mcp_conns
                  /\ S2.mcp_avail = mcp_avail
                  /\ S2.mcp_fallback_enable = mcp_fallback_enable
                  /\ S2.mcp_conn_fallback = mcp_conn_fallback
                  /\ S2.mcp_conn_fallback_time = mcp_conn_fallback_time
                  /\ S2.allocs[ret'.val].mca_released ]_vars
    /\ [][ \A aconn \in 1..MaxAllocs :
              (/\ aconn \in Allocs
               /\ ~allocs[aconn].mca_released
               /\ StateOf(allocs[aconn].mca_mconn)
                     \in {MC_S_AVAIL, MC_S_FALLBACK}
               /\ PoolRelease(aconn)) =>
                  /\ fault' = NoFault
                  /\ mconns' = [mconns EXCEPT
                        ![allocs[aconn].mca_mconn].mc_nreqs = @ - 1]
                  /\ UNCHANGED <<mcp_conns, mcp_avail, mcp_fallback_enable,
                                 mcp_conn_fallback, mcp_conn_fallback_time>>
          ]_vars

\* an allocation has been released and its record is the FALLBACK, which was
\* idle when it became the fallback and is idle again, some time after
C22_Witness ==
    \E a \in Allocs :
        LET m == allocs[a].mca_mconn IN
        /\ allocs[a].mca_released
        /\ mcp_conn_fallback = m
        /\ StateOf(m) = MC_S_FALLBACK
        /\ mconns[m].mc_hist[Len(mconns[m].mc_hist)].nreqs = 0
        /\ mconns[m].mc_nreqs = 0
        /\ now > 0

\* --------------------------------------------------------------------- C23
\* the keys of mcp_conns
ConnKeys == { k \in Keys : mcp_conns[k] # null }

\* C23: in every reachable pool state every key of mcp_avail is a key of
\* mcp_conns, and the keys of mcp_avail are exactly the keys of mcp_conns
\* whose record is in state AVAILABLE.
C23_AvailIsAvailableKeys ==
    /\ mcp_avail \subseteq ConnKeys
    /\ mcp_avail = { k \in ConnKeys : StateOf(mcp_conns[k]) = MC_S_AVAIL }

\* mcp_conns holds two keys: one is available, the record of the other is
\* DRAINING
C23_Witness ==
    \E k1, k2 \in ConnKeys :
        /\ mcp_avail = {k1}
        /\ StateOf(mcp_conns[k2]) = MC_S_DRAIN

\* --------------------------------------------------------------------- C24
\* C24: in every reachable pool state mcp_conn_fallback and
\* mcp_conn_fallback_time are both null or both set; a record is in state
\* FALLBACK exactly when mcp_conn_fallback is set, and then it is the record
\* mcp_conn_fallback refers to, the only one in that state, and mcp_conns
\* still holds it under its key.
C24_FallbackSlotConsistent ==
    /\ (mcp_conn_fallback = null) <=> (mcp_conn_fallback_time = null)
    /\ (mcp_conn_fallback # null) <=>
          (\E m \in Recs : StateOf(m) = MC_S_FALLBACK)
    /\ \A m \in Recs :
          StateOf(m) = MC_S_FALLBACK =>
              /\ mcp_conn_fallback = m
              /\ mcp_conns[mconns[m].mc_key] = m
    /\ mcp_conn_fallback # null => mcp_conn_fallback \in Recs

\* a fallback, with a request outstanding, whose time was stamped some time
\* ago, after an earlier fallback was drained
C24_Witness ==
    /\ mcp_conn_fallback # null
    /\ mcp_conn_fallback_time # null
    /\ now > mcp_conn_fallback_time
    /\ mconns[mcp_conn_fallback].mc_nreqs > 0
    /\ \E m \in Recs :
          m # mcp_conn_fallback /\ HasEntered(m, MC_S_FALLBACK)

\* --------------------------------------------------------------------- C25
\* C25: a record in state DELETED has mc_nreqs 0 and nothing refers to it:
\* no key of mcp_conns (so no key of mcp_avail) leads to it, it is not
\* mcp_conn_fallback, no unreleased allocation is one of its connection.  No
\* record mcp_conns holds is DELETED, and a DELETED record is never changed
\* again.
C25_DeletedUnreferenced ==
    /\ [](\A m \in Recs :
            StateOf(m) = MC_S_DELETED =>
                /\ mconns[m].mc_nreqs = 0
                /\ \A k \in Keys : mcp_conns[k] # m
                /\ mcp_conn_fallback # m
                /\ \A a \in Allocs :
                      allocs[a].mca_mconn = m => allocs[a].mca_released)
    /\ [](\A k \in ConnKeys : StateOf(mcp_conns[k]) # MC_S_DELETED)
    /\ [][ \A m \in Recs :
              StateOf(m) = MC_S_DELETED => mconns'[m] = mconns[m] ]_vars

\* a record was deleted with the release of its last request, and its key
\* is available again through a new record
C25_Witness ==
    \E m1, m2 \in Recs, a \in Allocs :
        /\ StateOf(m1) = MC_S_DELETED
        /\ allocs[a].mca_mconn = m1
        /\ allocs[a].mca_released
        /\ m2 # m1
        /\ mconns[m2].mc_key = mconns[m1].mc_key
        /\ mconns[m2].mc_key \in mcp_avail

\* --------------------------------------------------------------------- C26
\* the context has been created and ctxRelease has not released it
Unreleased(r) == ~allocs[ctxs[r].mc_conn].mca_released

\* C26: in every reachable state of the client, activeContexts holds under
\* its id every context that was created and is not released, and nothing
\* else; the ids of the contexts are different from one another and grow in
\* the order of creation, the next id being ncontexts; and nactive is the
\* number of entries of activeContexts.  No assertion of ctxCreateCommon or
\* ctxRelease on the table fails.
C26_ActiveContextsTable ==
    /\ fault \notin { "ctxCreateCommon: id already in activeContexts",
                      "ctxRelease: nactive is not positive",
                      "ctxRelease: context is not in activeContexts" }
    /\ fault = NoFault =>
          /\ \A r \in 1..Len(ctxs) :
                /\ ctxs[r].mc_id \in CtxIds
                /\ ctxs[r].mc_id < ncontexts
                /\ (activeContexts[ctxs[r].mc_id] = r) <=> Unreleased(r)
          /\ \A i \in CtxIds :
                activeContexts[i] # null =>
                    /\ activeContexts[i] \in 1..Len(ctxs)
                    /\ ctxs[activeContexts[i]].mc_id = i
          /\ \A r1, r2 \in 1..Len(ctxs) :
                r1 < r2 => ctxs[r1].mc_id < ctxs[r2].mc_id
          /\ Cardinality(ActiveIds) = nactive

\* two contexts were created; the first has been released, the second is
\* still in the table
C26_Witness ==
    /\ Len(ctxs) = 2
    /\ ~Unreleased(1)
    /\ Unreleased(2)
    /\ activeContexts[ctxs[2].mc_id] = 2
    /\ nactive = 1
    /\ fault = NoFault

\* C27: connected is true exactly when the ConnectionSet has announced
\* 'running' at some point and close() has not been invoked; after close() it
\* is false in every later state; and a connection added to the pool leaves it
\* as it was.
C27_ConnectedIffRunningSeenAndOpen ==
    /\ [](connected <=> (sawRunning /\ ncloseCalls = 0))
    /\ [][ /\ ncloseCalls > 0 => ~connected'
           /\ (\E key \in Keys : CueballAdded(key)) => connected' = connected
         ]_vars

\* the set has been 'running', connections were added, and close() was called
C27_Witness ==
    /\ sawRunning
    /\ timeConnected # null
    /\ Len(mconns) > 0
    /\ ncloseCalls > 0
    /\ fault = NoFault

\* C28: connRetire(key) for a key that is not in mcp_conns, or whose record
\* is not AVAILABLE (it is the fallback or is draining), ends in an assertion
\* failure and leaves the pool's tables, records and fallback slot as they
\* were.
C28_RetireOfUnavailableKeyFails ==
    [][ \A key \in Keys, destroyed \in BOOLEAN :
          ( /\ onConnectionRemoved(key, destroyed)
            /\ \/ mcp_conns[key] = null
               \/ mconns[mcp_conns[key]].mc_state # MC_S_AVAIL )
          => /\ fault' # NoFault
             /\ UNCHANGED poolVars ]_vars

\* connRetire was called for the key of the fallback connection and failed
C28_Witness ==
    /\ fault = "connRetire: key not in mcp_avail"
    /\ mcp_conn_fallback # null
    /\ \E key \in Keys : mcp_conns[key] = mcp_conn_fallback

\* C30: when the request of a method that uses rpcCommonSingleMessage
\* (getBucket) ends, the completion is called once; it receives an error and
\* no message if the request failed or if the number of data messages received
\* is not exactly 1, and otherwise no error and that one message.
C30_SingleMessageOrError ==
    [][ \A rpcctx \in 1..MaxAllocs, err \in {"none", "error"} :
          ( /\ FastDone(rpcctx, err)
            /\ ctxs[rpcctx].method = "getBucket" )
          => LET data == ctxs[rpcctx].data IN
             /\ fault' = NoFault
             /\ Len(delivered') = 1
             /\ delivered'[1].ev = "callback"
             /\ delivered'[1].ctx = rpcctx
             /\ IF err # "none" \/ Len(data) # 1
                THEN /\ delivered'[1].arg.err # "none"
                     /\ delivered'[1].arg.val = null
                ELSE /\ delivered'[1].arg.err = "none"
                     /\ delivered'[1].arg.val = data[1] ]_vars

\* a getBucket request that ended without error after two data messages has
\* had its completion called with the error
C30_Witness ==
    /\ Len(delivered) = 1
    /\ delivered[1].ev = "callback"
    /\ delivered[1].ctx # null
    /\ ctxs[delivered[1].ctx].method = "getBucket"
    /\ Len(ctxs[delivered[1].ctx].data) = 2
    /\ delivered[1].arg.err = "bad response: expected 1 message"

\* the callback records among what a step delivered
Callbacks(d) == { i \in 1..Len(d) : d[i].ev = "callback" }

\* C29: a call of a callback-style method (getBucket, getPlacementData)
\* either gets no context and queues its completion, once, with the error,
\* or gets a context and delivers nothing yet.  The queued completion is
\* delivered by the turn that takes it, without a release; the end of the
\* request, with 'end' or 'error', delivers the completion once through the
\* release wrapper, after the release, and with an error if the request
\* failed.  No other step delivers a completion or discards a queued one.
C29_CompletionExactlyOnce ==
    [][ /\ \A key \in Keys \cup {null}, method \in CallbackMethods :
             CallbackMethodCalled(key, method)
             => /\ fault' = NoFault
                /\ delivered' = << >>
                /\ IF ret'.val = null
                   THEN /\ ctxs' = ctxs
                        /\ nactive' = nactive
                        /\ Len(immediates') = Len(immediates) + 1
                        /\ immediates'[Len(immediates')].fn = "callback"
                        /\ immediates'[Len(immediates')].arg # "none"
                   ELSE /\ Len(ctxs') = Len(ctxs) + 1
                        /\ ret'.val = Len(ctxs')
                        /\ ~ctxs'[ret'.val].completed
                        /\ activeContexts'[ctxs'[ret'.val].mc_id] = ret'.val
                        /\ immediates' = immediates
        /\ \A rpcctx \in 1..MaxAllocs, err \in {"none", "error"} :
             FastDone(rpcctx, err)
             => /\ fault' = NoFault
                /\ Callbacks(delivered') = {1}
                /\ delivered'[1].ctx = rpcctx
                /\ delivered'[1].released
                /\ ~delivered'[1].active
                /\ err # "none" => delivered'[1].arg.err = err
                /\ ctxs'[rpcctx].completed
        /\ ( /\ immediates # << >>
             /\ Head(immediates).fn = "callback"
             /\ \/ Len(immediates') < Len(immediates)
                \/ SubSeq(immediates', 1, Len(immediates)) # immediates )
           => /\ immediates' = Tail(immediates)
              /\ Callbacks(delivered') = {1}
              /\ delivered'[1].ctx = null
              /\ delivered'[1].arg = Head(immediates).arg
              /\ UNCHANGED <<ctxs, nactive, activeContexts, allocs, mconns>>
        /\ Cardinality(Callbacks(delivered')) <= 1
        /\ \A i \in Callbacks(delivered') :
             IF delivered'[i].ctx = null
             THEN /\ immediates # << >>
                  /\ Head(immediates).fn = "callback"
                  /\ immediates' = Tail(immediates)
             ELSE /\ delivered'[i].ctx \in 1..Len(ctxs)
                  /\ ~ctxs[delivered'[i].ctx].completed
                  /\ ctxs'[delivered'[i].ctx].completed
        /\ \A r \in 1..Len(ctxs) :
             (ctxs[r].kind = "callback" /\ ctxs[r].completed)
             => ctxs'[r] = ctxs[r]
      ]_vars

\* the completion of a call that got no context has been delivered with the
\* error, and no context was ever created
C29_Witness ==
    /\ Len(delivered) = 1
    /\ delivered[1].ev = "callback"
    /\ delivered[1].ctx = null
    /\ delivered[1].arg = "NoBackendsError"
    /\ ctxs = << >>
    /\ fault = NoFault

\* C32: in every reachable pool state, when mcp_avail is not empty there is
\* no fallback: mcp_conn_fallback and mcp_conn_fallback_time are null and no
\* record is in state FALLBACK.  The assertions of connRetire that no
\* fallback exists when it retires the last available connection never fail.
C32_NoFallbackWhileAvailable ==
    /\ mcp_avail # {} =>
          /\ mcp_conn_fallback = null
          /\ mcp_conn_fallback_time = null
          /\ \A m \in Recs : StateOf(m) # MC_S_FALLBACK
    /\ fault \notin { "connRetire: a fallback already exists",
                      "connRetire: a fallback time already exists" }

\* a connection is available after another one has been the fallback
C32_Witness ==
    /\ mcp_avail # {}
    /\ \E m \in Recs : HasEntered(m, MC_S_FALLBACK)
    /\ fault = NoFault

\* the allocations made of record m and not released
Outstanding(m) ==
    { a \in Allocs : allocs[a].mca_mconn = m /\ ~allocs[a].mca_released }

\* C33: in every reachable pool state the mc_nreqs of each record is the
\* number of allocations made of it that have not been released; it is never
\* negative, and the assertion mc_nreqs > 0 of connRelease never fails.
C33_NreqsCountsOutstanding ==
    /\ \A m \in Recs :
          /\ mconns[m].mc_nreqs = Cardinality(Outstanding(m))
          /\ mconns[m].mc_nreqs >= 0
    /\ fault # "connRelease: mc_nreqs is not positive"

\* a record still in the pool has had an allocation made and released
C33_Witness ==
    \E a \in Allocs :
        /\ allocs[a].mca_released
        /\ mconns[allocs[a].mca_mconn].mc_nreqs = 0
        /\ StateOf(allocs[a].mca_mconn) # MC_S_DELETED
        /\ fault = NoFault

\* C35: a record that is the FALLBACK stops being so only in a connAdd, in
\* fallbackDisable, or in a connAlloc made when its age in milliseconds
\* exceeds BorayFallbackMaxTime.  The passage of time and connRelease, also
\* the one that takes the last request from the fallback, leave it in state
\* FALLBACK, in mcp_conns, and in mcp_conn_fallback with its time.
C35_FallbackLeftOnlyByAddDisableStaleAlloc ==
    [][ \A m \in Recs :
          StateOf(m) = MC_S_FALLBACK =>
             /\ mconns'[m].mc_state # MC_S_FALLBACK =>
                   \/ \E key \in Keys : onConnectionAdd(key)
                   \/ PoolFallbackDisable
                   \/ /\ \E key \in Keys \cup {null} : PoolAlloc(key)
                      /\ hrtimeMillisec(FallbackAge) > BorayFallbackMaxTime
             /\ (Tick \/ \E aconn \in 1..MaxAllocs : PoolRelease(aconn)) =>
                   /\ mconns'[m].mc_state = MC_S_FALLBACK
                   /\ mcp_conns'[mconns[m].mc_key] = m
                   /\ mcp_conn_fallback' = m
                   /\ mcp_conn_fallback_time' = mcp_conn_fallback_time
        ]_vars

\* the fallback, which had a request when it became the fallback, is idle
\* after the release of that request, at an age beyond BorayFallbackMaxTime
C35_Witness ==
    /\ mcp_conn_fallback # null
    /\ StateOf(mcp_conn_fallback) = MC_S_FALLBACK
    /\ mconns[mcp_conn_fallback].mc_nreqs = 0
    /\ hrtimeMillisec(FallbackAge) > BorayFallbackMaxTime
    /\ mconns[mcp_conn_fallback]
          .mc_hist[Len(mconns[mcp_conn_fallback].mc_hist)].nreqs > 0
    /\ fault = NoFault

\* C36: a connAlloc that returns an allocation of the fallback leaves
\* mcp_conn_fallback_time, and so the age of the fallback, as it was.  The
\* time is taken by the connRetire that makes a connection the fallback and
\* stays the same for as long as that connection is the fallback.
C36_FallbackTimeKeptByAlloc ==
    [][ /\ \A key \in Keys \cup {null} :
             ( /\ PoolAlloc(key)
               /\ mcp_avail = {}
               /\ mcp_conn_fallback # null
               /\ ret'.err = "none" )
             => /\ allocs'[ret'.val].mca_mconn = mcp_conn_fallback
                /\ mcp_conn_fallback' = mcp_conn_fallback
                /\ mcp_conn_fallback_time' = mcp_conn_fallback_time
                /\ FallbackAge' = FallbackAge
        /\ (mcp_conn_fallback_time' # null /\ mcp_conn_fallback_time = null)
             => /\ \E key \in Keys : onConnectionRemoved(key, FALSE)
                /\ mcp_conn_fallback_time' = now'
        /\ (mcp_conn_fallback # null /\ mcp_conn_fallback' = mcp_conn_fallback)
             => mcp_conn_fallback_time' = mcp_conn_fallback_time
      ]_vars

\* the fallback has just been allocated some time after it became the
\* fallback
C36_Witness ==
    /\ mcp_conn_fallback # null
    /\ FallbackAge > 0
    /\ ret.err = "none"
    /\ ret.val \in Allocs
    /\ allocs[ret.val].mca_mconn = mcp_conn_fallback
    /\ ~allocs[ret.val].mca_released
    /\ StateOf(mcp_conn_fallback) = MC_S_FALLBACK
    /\ fault = NoFault

\* C37: connAdd for a key that is in mcp_conns, whether its record is
\* AVAILABLE, the FALLBACK or DRAINING, fails its assertion, creates no
\* record and changes nothing of the pool.  A connAdd that succeeds is for a
\* key that is not in mcp_conns: every earlier record of the key is DELETED.
C37_AddOfKnownKeyFails ==
    [][ \A key \in Keys :
          onConnectionAdd(key) =>
             IF mcp_conns[key] # null
             THEN /\ fault' = "connAdd: key already in mcp_conns"
                  /\ UNCHANGED poolVars
             ELSE /\ fault' = NoFault
                  /\ \A m \in Recs :
                        mconns[m].mc_key = key => StateOf(m) = MC_S_DELETED
                  /\ Len(mconns') = Len(mconns) + 1
                  /\ mcp_conns'[key] = Len(mconns')
      ]_vars

\* connAdd has failed for the key of the only record, which is DRAINING
C37_Witness ==
    /\ fault = "connAdd: key already in mcp_conns"
    /\ Len(mconns) = 1
    /\ StateOf(1) = MC_S_DRAIN

\* C39: a call of ctxRelease for a context that has been released ends in an
\* assertion failure, whether or not other contexts are active, and leaves
\* nactive, activeContexts and the mc_nreqs of every record as they were.
C39_DoubleCtxReleaseChangesNothing ==
    [][ \A rpcctx \in 1..MaxContexts, err \in {"none", "error"} :
          CallbackAgain(rpcctx, err)
          => /\ fault' # NoFault
             /\ nactive' = nactive
             /\ activeContexts' = activeContexts
             /\ Len(mconns') = Len(mconns)
             /\ \A m \in Recs : mconns'[m].mc_nreqs = mconns[m].mc_nreqs
      ]_vars

\* the records the pool holds: those mcp_conns refers to
PoolRecs == { m \in Recs : \E k \in Keys : mcp_conns[k] = m }

\* the sum of mc_nreqs over the first n records that the pool holds
RECURSIVE SumNreqs(_)
SumNreqs(n) ==
    IF n = 0
    THEN 0
    ELSE SumNreqs(n - 1) + (IF n \in PoolRecs THEN mconns[n].mc_nreqs ELSE 0)

AllRemovedAndReleased == mcp_avail = {} /\ nactive = 0

\* the pool holds no record, and the handle of every record ever added has
\* been released once
PoolEmptied ==
    /\ \A k \in Keys : mcp_conns[k] = null
    /\ mcp_conn_fallback = null
    /\ \A m \in Recs : /\ StateOf(m) = MC_S_DELETED
                       /\ mconns[m].hdl_nrelease = 1

\* C38: after close(), in any state where every connection added has been
\* removed and every context has been released, mcp_conns is empty and every
\* record ever added is DELETED with its handle released exactly once: none
\* is left as the FALLBACK or DRAINING.  So a closed client whose connections
\* are all removed and whose contexts are all released in the end has an
\* empty pool from then on.
C38_PoolEmptiedAfterClose ==
    (closeState # BORAY_CS_OPEN /\ AllRemovedAndReleased /\ Running)
        => PoolEmptied

\* close() found a request outstanding on the fallback; the pool is empty now
C38_Witness ==
    /\ closeState # BORAY_CS_OPEN
    /\ nactiveAtClose = 1
    /\ AllRemovedAndReleased
    /\ PoolEmptied
    /\ Recs # {}
    /\ \E m \in Recs : HasEntered(m, MC_S_FALLBACK)
    /\ fault = NoFault

\* the place of the first message of a response that carries an error, one
\* past the end when none does
FirstError(msgs) ==
    IF \E i \in 1..Len(msgs) : msgs[i] # "none"
    THEN CHOOSE i \in 1..Len(msgs) :
             /\ msgs[i] # "none"
             /\ \A j \in 1..(i - 1) : msgs[j] = "none"
    ELSE Len(msgs) + 1

\* the messages of a response that were read before its first error, in the
\* order of their arrival
ReadBeforeError(c) ==
    LET first == FirstError(c.msgs)
        n == IF c.nread < first THEN c.nread ELSE first - 1
    IN  [ i \in 1..n |-> i ]

\* C31: in rpcCommon with wrapErrors, after every step, what has been
\* forwarded to the consumer is exactly the messages read so far that arrived
\* before the first message with an embedded error, in arrival order, so that
\* message and the later ones are never forwarded; and when the request ends
\* after a message with an embedded error was received, the completion is
\* called once, with the error of the first such message and no value.
C31_WrapErrorsForwardsUntilFirstError ==
    [][ \A rpcctx \in 1..MaxAllocs :
          /\ ( /\ rpcctx \in 1..Len(ctxs')
               /\ ctxs'[rpcctx].method \in WrapMethods )
             => ctxs'[rpcctx].data = ReadBeforeError(ctxs'[rpcctx])
          /\ ( /\ rpcctx \in 1..Len(ctxs)
               /\ ctxs[rpcctx].method \in WrapMethods
               /\ ~ctxs[rpcctx].completed
               /\ FirstError(ctxs[rpcctx].msgs) <= Len(ctxs[rpcctx].msgs)
               /\ FastDone(rpcctx, "none") )
             => /\ fault' = NoFault
                /\ Len(delivered') = 1
                /\ delivered'[1].ev = "callback"
                /\ delivered'[1].ctx = rpcctx
                /\ delivered'[1].arg.err
                     = ctxs[rpcctx].msgs[FirstError(ctxs[rpcctx].msgs)]
                /\ delivered'[1].arg.val = null ]_vars

\* a request made with wrapErrors has ended after two messages without an
\* error and a third with one: the two were forwarded in order and the
\* completion was called with the error of the third
C31_Witness ==
    /\ fault = NoFault
    /\ Len(delivered) = 1
    /\ delivered[1].ev = "callback"
    /\ delivered[1].ctx # null
    /\ LET c == ctxs[delivered[1].ctx] IN
       /\ c.method \in WrapMethods
       /\ c.completed
       /\ c.msgs = <<"none", "none", "NotFoundError">>
       /\ c.data = <<1, 2>>
       /\ delivered[1].arg.err = "NotFoundError"

====
